---- MODULE Spec2Model ----
(***************************************************************************)
(* A model of the Google Shopping agent (src/google_shopping_agent):        *)
(* the query aggregator (gather_search_queries), the discount-filtered     *)
(* search (SerpApiClient), the product model (ShoppingProduct) and the      *)
(* run loop (GoogleShoppingAgent.run).                                      *)
(*                                                                         *)
(* Representation.                                                         *)
(*  - A Python str is a sequence of code points (naturals), so that         *)
(*    lower(), split(), strip(), join and the regular expressions are       *)
(*    computed character by character.                                      *)
(*  - An Optional value is None (the empty tuple) or Some(v) (<<v>>).       *)
(*  - A price is a decimal [m, k] (m / 10^k); what round(x, 2) returns is    *)
(*    counted in hundredths: a rounded price in cents, a percentage in      *)
(*    hundredths of a percent (10.01 % is 1001).                            *)
(*  - Where the result depends on it, float arithmetic is done on IEEE      *)
(*    754 doubles (mantissa and exponent), rounding to nearest.              *)
(***************************************************************************)
EXTENDS Integers, Sequences, FiniteSets, TLC

VARIABLES
    \* ---- the agent and its collaborators (specification Spec) ----
    store,                \* the persistence store: [alerts, deals, urls, stores, inserted]
    supabase_connected,   \* HarbiSupabaseClient._client is set
    serp_client,          \* run's SerpApiClient: "none" (_client is None), "open", "closed"
    pc,                   \* where run() is: "idle", "loop", "done", "cancelled"
    max_queries,          \* run's argument
    min_discount,         \* run's argument
    deal_alert_queries,   \* local of gather_search_queries (alerts, priority forced)
    trending,             \* local of gather_search_queries
    unique_queries,       \* what gather_search_queries returned
    queries,              \* run's local: unique_queries[:max_queries]
    idx,                  \* position of the for loop in queries (1-based)
    result,               \* self._result, the AgentResult
    result_at_start,      \* history: self._result as run() found it
    attempted,            \* history: the queries run() passed to the search, in order
    outcomes,             \* history: what each of those searches did
    events,               \* history: "search", "request", "sleep" in the order taken
    runs,                 \* history: number of run() calls started
    \* ---- search_with_discount_filter alone (specification SpecFilter) ----
    f_pc,                 \* "idle", "input", "awaiting", "returned", "raised"
    f_client,             \* the SerpApiClient: "none", "open", "closed"
    f_query,              \* the argument query (the caller's object)
    f_input,              \* history: the query as it was passed
    f_min_discount,       \* the argument min_discount
    f_response,           \* history: the answer the call was resumed with
    f_out,                \* the frame of the call, then what the call did
    \* ---- the merge step alone (specification SpecMerge) ----
    m_pc, m_in, m_out,
    \* ---- search_multiple (specification SpecMultiple) ----
    b_pc,                 \* "idle", "loop", "awaiting", "returned", "raised"
    b_client,             \* the SerpApiClient: "none", "open", "closed"
    b_queries,            \* the argument queries (the caller's objects)
    b_input,              \* history: the queries as they were passed
    b_min_discount,       \* the argument min_discount
    b_idx,                \* position of the for loop in b_queries
    b_results,            \* the dict results: entries [key, value] in insertion order
    b_outs,               \* what each search_with_discount_filter call did; the
                          \* last one is the frame of a suspended call
    \* ---- one ShoppingProduct (specification SpecProduct) ----
    pr_pc,                \* "idle", "input", "done"
    pr_product,           \* the product
    pr_has_discount,      \* product.has_discount
    pr_effective,         \* product.calculate_discount_percentage()
    pr_deal,              \* what _product_to_deal(product) did
    \* ---- process_products (specification SpecProcess) ----
    p_pc,                 \* "idle", "loop", "returned"
    p_products,           \* the argument products
    p_idx,                \* position of the for loop in p_products
    p_deals_created,      \* the local deals_created
    p_log,                \* history: what the loop did with each product
    p_failures,           \* history: the store calls that failed for each product
    \* ---- _parse_product on one raw item (specification SpecParse) ----
    ps_pc,                \* "idle", "input", "parsed"
    ps_item,              \* the raw item
    ps_out,               \* what _parse_product returned: None or Some(product)
    \* ---- GoogleShoppingAgent(config) (specification SpecConfig) ----
    cfg_pc,               \* "idle", "input", "constructed", "raised"
    cfg_env,              \* os.environ: the four variables load_config reads
    cfg_config,           \* the argument config: None or Some(AgentConfig)
    cfg_out,              \* what the constructor did: [raised, msg, config]
    \* ---- the review app's send_to_approval (specification SpecSession) ----
    a_pc,                 \* "idle", "returned"
    a_client,             \* st.session_state.supabase_client is set
    a_count               \* what send_to_approval returned

agent_vars == <<store, supabase_connected, serp_client, pc, max_queries, min_discount,
                deal_alert_queries, trending, unique_queries, queries, idx, result,
                result_at_start, attempted, outcomes, events, runs>>
filter_vars == <<f_pc, f_client, f_query, f_input, f_min_discount, f_response, f_out>>
merge_vars == <<m_pc, m_in, m_out>>
multiple_vars ==
    <<b_pc, b_client, b_queries, b_input, b_min_discount, b_idx, b_results, b_outs>>
product_vars == <<pr_pc, pr_product, pr_has_discount, pr_effective, pr_deal>>
process_vars == <<p_pc, p_products, p_idx, p_deals_created, p_log, p_failures>>
parse_vars == <<ps_pc, ps_item, ps_out>>
config_vars == <<cfg_pc, cfg_env, cfg_config, cfg_out>>
app_vars == <<a_pc, a_client, a_count>>
vars == <<agent_vars, filter_vars, merge_vars, multiple_vars, product_vars, process_vars,
          parse_vars, config_vars, app_vars>>

-----------------------------------------------------------------------------
(* Optional values *)

None == <<>>
Some(v) == <<v>>
IsNone(o) == o = <<>>
Val(o) == o[1]

-----------------------------------------------------------------------------
(* Strings *)

\* The tables of this section are those of Python 3.11 (Unicode 14.0.0), the
\* version src/ is written for.  Each is sorted by the first entry of its rows.

RECURSIVE RowAt(_, _, _, _)
\* the index of the last row of T[lo..hi] whose first entry is at most c, and
\* lo - 1 when there is none
RowAt(T, c, lo, hi) ==
    IF lo > hi THEN hi
    ELSE IF T[(lo + hi) \div 2][1] <= c THEN RowAt(T, c, (lo + hi) \div 2 + 1, hi)
    ELSE RowAt(T, c, lo, (lo + hi) \div 2 - 1)

\* the index of the last row of T whose first entry is at most c, 0 when none
Row(T, c) == RowAt(T, c, 1, Len(T))

\* c lies in the range <<lo, hi>> that is row i of T
InRow(T, c, i) == i > 0 /\ c <= T[i][2]

\* c lies in one of the ranges <<lo, hi>> of T
InRanges(T, c) == InRow(T, c, Row(T, c))

\* the rule r = <<lo, hi, step, delta>> maps c, to c + delta
RuleApplies(r, c) == c >= r[1] /\ c <= r[2] /\ (c - r[1]) % r[3] = 0

\* c mapped by row i of T if that rule applies to it, else c itself
MappedBy(T, c, i) == IF i > 0 /\ RuleApplies(T[i], c) THEN c + T[i][4] ELSE c

\* c mapped by the rule of T that applies to it, c itself when none does
CaseMapped(T, c) == MappedBy(T, c, Row(T, c))

\* the code points with a lowercase mapping of one code point, as rules
LowerRules ==
    <<<<65, 90, 1, 32>>, <<192, 214, 1, 32>>, <<216, 222, 1, 32>>, <<256, 302, 2, 1>>,
      <<304, 304, 1, -199>>, <<306, 310, 2, 1>>, <<313, 327, 2, 1>>,
      <<330, 374, 2, 1>>, <<376, 376, 1, -121>>, <<377, 381, 2, 1>>,
      <<385, 385, 1, 210>>, <<386, 388, 2, 1>>, <<390, 390, 1, 206>>,
      <<391, 391, 1, 1>>, <<393, 394, 1, 205>>, <<395, 395, 1, 1>>,
      <<398, 398, 1, 79>>, <<399, 399, 1, 202>>, <<400, 400, 1, 203>>,
      <<401, 401, 1, 1>>, <<403, 403, 1, 205>>, <<404, 404, 1, 207>>,
      <<406, 406, 1, 211>>, <<407, 407, 1, 209>>, <<408, 408, 1, 1>>,
      <<412, 412, 1, 211>>, <<413, 413, 1, 213>>, <<415, 415, 1, 214>>,
      <<416, 420, 2, 1>>, <<422, 422, 1, 218>>, <<423, 423, 1, 1>>,
      <<425, 425, 1, 218>>, <<428, 428, 1, 1>>, <<430, 430, 1, 218>>,
      <<431, 431, 1, 1>>, <<433, 434, 1, 217>>, <<435, 437, 2, 1>>,
      <<439, 439, 1, 219>>, <<440, 440, 1, 1>>, <<444, 444, 1, 1>>, <<452, 452, 1, 2>>,
      <<453, 453, 1, 1>>, <<455, 455, 1, 2>>, <<456, 456, 1, 1>>, <<458, 458, 1, 2>>,
      <<459, 475, 2, 1>>, <<478, 494, 2, 1>>, <<497, 497, 1, 2>>, <<498, 500, 2, 1>>,
      <<502, 502, 1, -97>>, <<503, 503, 1, -56>>, <<504, 542, 2, 1>>,
      <<544, 544, 1, -130>>, <<546, 562, 2, 1>>, <<570, 570, 1, 10795>>,
      <<571, 571, 1, 1>>, <<573, 573, 1, -163>>, <<574, 574, 1, 10792>>,
      <<577, 577, 1, 1>>, <<579, 579, 1, -195>>, <<580, 580, 1, 69>>,
      <<581, 581, 1, 71>>, <<582, 590, 2, 1>>, <<880, 882, 2, 1>>, <<886, 886, 1, 1>>,
      <<895, 895, 1, 116>>, <<902, 902, 1, 38>>, <<904, 906, 1, 37>>,
      <<908, 908, 1, 64>>, <<910, 911, 1, 63>>, <<913, 929, 1, 32>>,
      <<931, 939, 1, 32>>, <<975, 975, 1, 8>>, <<984, 1006, 2, 1>>,
      <<1012, 1012, 1, -60>>, <<1015, 1015, 1, 1>>, <<1017, 1017, 1, -7>>,
      <<1018, 1018, 1, 1>>, <<1021, 1023, 1, -130>>, <<1024, 1039, 1, 80>>,
      <<1040, 1071, 1, 32>>, <<1120, 1152, 2, 1>>, <<1162, 1214, 2, 1>>,
      <<1216, 1216, 1, 15>>, <<1217, 1229, 2, 1>>, <<1232, 1326, 2, 1>>,
      <<1329, 1366, 1, 48>>, <<4256, 4293, 1, 7264>>, <<4295, 4295, 1, 7264>>,
      <<4301, 4301, 1, 7264>>, <<5024, 5103, 1, 38864>>, <<5104, 5109, 1, 8>>,
      <<7312, 7354, 1, -3008>>, <<7357, 7359, 1, -3008>>, <<7680, 7828, 2, 1>>,
      <<7838, 7838, 1, -7615>>, <<7840, 7934, 2, 1>>, <<7944, 7951, 1, -8>>,
      <<7960, 7965, 1, -8>>, <<7976, 7983, 1, -8>>, <<7992, 7999, 1, -8>>,
      <<8008, 8013, 1, -8>>, <<8025, 8031, 2, -8>>, <<8040, 8047, 1, -8>>,
      <<8072, 8079, 1, -8>>, <<8088, 8095, 1, -8>>, <<8104, 8111, 1, -8>>,
      <<8120, 8121, 1, -8>>, <<8122, 8123, 1, -74>>, <<8124, 8124, 1, -9>>,
      <<8136, 8139, 1, -86>>, <<8140, 8140, 1, -9>>, <<8152, 8153, 1, -8>>,
      <<8154, 8155, 1, -100>>, <<8168, 8169, 1, -8>>, <<8170, 8171, 1, -112>>,
      <<8172, 8172, 1, -7>>, <<8184, 8185, 1, -128>>, <<8186, 8187, 1, -126>>,
      <<8188, 8188, 1, -9>>, <<8486, 8486, 1, -7517>>, <<8490, 8490, 1, -8383>>,
      <<8491, 8491, 1, -8262>>, <<8498, 8498, 1, 28>>, <<8544, 8559, 1, 16>>,
      <<8579, 8579, 1, 1>>, <<9398, 9423, 1, 26>>, <<11264, 11311, 1, 48>>,
      <<11360, 11360, 1, 1>>, <<11362, 11362, 1, -10743>>, <<11363, 11363, 1, -3814>>,
      <<11364, 11364, 1, -10727>>, <<11367, 11371, 2, 1>>, <<11373, 11373, 1, -10780>>,
      <<11374, 11374, 1, -10749>>, <<11375, 11375, 1, -10783>>,
      <<11376, 11376, 1, -10782>>, <<11378, 11378, 1, 1>>, <<11381, 11381, 1, 1>>,
      <<11390, 11391, 1, -10815>>, <<11392, 11490, 2, 1>>, <<11499, 11501, 2, 1>>,
      <<11506, 11506, 1, 1>>, <<42560, 42604, 2, 1>>, <<42624, 42650, 2, 1>>,
      <<42786, 42798, 2, 1>>, <<42802, 42862, 2, 1>>, <<42873, 42875, 2, 1>>,
      <<42877, 42877, 1, -35332>>, <<42878, 42886, 2, 1>>, <<42891, 42891, 1, 1>>,
      <<42893, 42893, 1, -42280>>, <<42896, 42898, 2, 1>>, <<42902, 42920, 2, 1>>,
      <<42922, 42922, 1, -42308>>, <<42923, 42923, 1, -42319>>,
      <<42924, 42924, 1, -42315>>, <<42925, 42925, 1, -42305>>,
      <<42926, 42926, 1, -42308>>, <<42928, 42928, 1, -42258>>,
      <<42929, 42929, 1, -42282>>, <<42930, 42930, 1, -42261>>,
      <<42931, 42931, 1, 928>>, <<42932, 42946, 2, 1>>, <<42948, 42948, 1, -48>>,
      <<42949, 42949, 1, -42307>>, <<42950, 42950, 1, -35384>>, <<42951, 42953, 2, 1>>,
      <<42960, 42960, 1, 1>>, <<42966, 42968, 2, 1>>, <<42997, 42997, 1, 1>>,
      <<65313, 65338, 1, 32>>, <<66560, 66599, 1, 40>>, <<66736, 66771, 1, 40>>,
      <<66928, 66938, 1, 39>>, <<66940, 66954, 1, 39>>, <<66956, 66962, 1, 39>>,
      <<66964, 66965, 1, 39>>, <<68736, 68786, 1, 64>>, <<71840, 71871, 1, 32>>,
      <<93760, 93791, 1, 32>>, <<125184, 125217, 1, 34>>>>

\* the code points with an uppercase mapping of one code point, as rules
UpperRules ==
    <<<<97, 122, 1, -32>>, <<181, 181, 1, 743>>, <<224, 246, 1, -32>>,
      <<248, 254, 1, -32>>, <<255, 255, 1, 121>>, <<257, 303, 2, -1>>,
      <<305, 305, 1, -232>>, <<307, 311, 2, -1>>, <<314, 328, 2, -1>>,
      <<331, 375, 2, -1>>, <<378, 382, 2, -1>>, <<383, 383, 1, -300>>,
      <<384, 384, 1, 195>>, <<387, 389, 2, -1>>, <<392, 392, 1, -1>>,
      <<396, 396, 1, -1>>, <<402, 402, 1, -1>>, <<405, 405, 1, 97>>,
      <<409, 409, 1, -1>>, <<410, 410, 1, 163>>, <<414, 414, 1, 130>>,
      <<417, 421, 2, -1>>, <<424, 424, 1, -1>>, <<429, 429, 1, -1>>,
      <<432, 432, 1, -1>>, <<436, 438, 2, -1>>, <<441, 441, 1, -1>>,
      <<445, 445, 1, -1>>, <<447, 447, 1, 56>>, <<453, 453, 1, -1>>,
      <<454, 454, 1, -2>>, <<456, 456, 1, -1>>, <<457, 457, 1, -2>>,
      <<459, 459, 1, -1>>, <<460, 460, 1, -2>>, <<462, 476, 2, -1>>,
      <<477, 477, 1, -79>>, <<479, 495, 2, -1>>, <<498, 498, 1, -1>>,
      <<499, 499, 1, -2>>, <<501, 501, 1, -1>>, <<505, 543, 2, -1>>,
      <<547, 563, 2, -1>>, <<572, 572, 1, -1>>, <<575, 576, 1, 10815>>,
      <<578, 578, 1, -1>>, <<583, 591, 2, -1>>, <<592, 592, 1, 10783>>,
      <<593, 593, 1, 10780>>, <<594, 594, 1, 10782>>, <<595, 595, 1, -210>>,
      <<596, 596, 1, -206>>, <<598, 599, 1, -205>>, <<601, 601, 1, -202>>,
      <<603, 603, 1, -203>>, <<604, 604, 1, 42319>>, <<608, 608, 1, -205>>,
      <<609, 609, 1, 42315>>, <<611, 611, 1, -207>>, <<613, 613, 1, 42280>>,
      <<614, 614, 1, 42308>>, <<616, 616, 1, -209>>, <<617, 617, 1, -211>>,
      <<618, 618, 1, 42308>>, <<619, 619, 1, 10743>>, <<620, 620, 1, 42305>>,
      <<623, 623, 1, -211>>, <<625, 625, 1, 10749>>, <<626, 626, 1, -213>>,
      <<629, 629, 1, -214>>, <<637, 637, 1, 10727>>, <<640, 640, 1, -218>>,
      <<642, 642, 1, 42307>>, <<643, 643, 1, -218>>, <<647, 647, 1, 42282>>,
      <<648, 648, 1, -218>>, <<649, 649, 1, -69>>, <<650, 651, 1, -217>>,
      <<652, 652, 1, -71>>, <<658, 658, 1, -219>>, <<669, 669, 1, 42261>>,
      <<670, 670, 1, 42258>>, <<837, 837, 1, 84>>, <<881, 883, 2, -1>>,
      <<887, 887, 1, -1>>, <<891, 893, 1, 130>>, <<940, 940, 1, -38>>,
      <<941, 943, 1, -37>>, <<945, 961, 1, -32>>, <<962, 962, 1, -31>>,
      <<963, 971, 1, -32>>, <<972, 972, 1, -64>>, <<973, 974, 1, -63>>,
      <<976, 976, 1, -62>>, <<977, 977, 1, -57>>, <<981, 981, 1, -47>>,
      <<982, 982, 1, -54>>, <<983, 983, 1, -8>>, <<985, 1007, 2, -1>>,
      <<1008, 1008, 1, -86>>, <<1009, 1009, 1, -80>>, <<1010, 1010, 1, 7>>,
      <<1011, 1011, 1, -116>>, <<1013, 1013, 1, -96>>, <<1016, 1016, 1, -1>>,
      <<1019, 1019, 1, -1>>, <<1072, 1103, 1, -32>>, <<1104, 1119, 1, -80>>,
      <<1121, 1153, 2, -1>>, <<1163, 1215, 2, -1>>, <<1218, 1230, 2, -1>>,
      <<1231, 1231, 1, -15>>, <<1233, 1327, 2, -1>>, <<1377, 1414, 1, -48>>,
      <<4304, 4346, 1, 3008>>, <<4349, 4351, 1, 3008>>, <<5112, 5117, 1, -8>>,
      <<7296, 7296, 1, -6254>>, <<7297, 7297, 1, -6253>>, <<7298, 7298, 1, -6244>>,
      <<7299, 7300, 1, -6242>>, <<7301, 7301, 1, -6243>>, <<7302, 7302, 1, -6236>>,
      <<7303, 7303, 1, -6181>>, <<7304, 7304, 1, 35266>>, <<7545, 7545, 1, 35332>>,
      <<7549, 7549, 1, 3814>>, <<7566, 7566, 1, 35384>>, <<7681, 7829, 2, -1>>,
      <<7835, 7835, 1, -59>>, <<7841, 7935, 2, -1>>, <<7936, 7943, 1, 8>>,
      <<7952, 7957, 1, 8>>, <<7968, 7975, 1, 8>>, <<7984, 7991, 1, 8>>,
      <<8000, 8005, 1, 8>>, <<8017, 8023, 2, 8>>, <<8032, 8039, 1, 8>>,
      <<8048, 8049, 1, 74>>, <<8050, 8053, 1, 86>>, <<8054, 8055, 1, 100>>,
      <<8056, 8057, 1, 128>>, <<8058, 8059, 1, 112>>, <<8060, 8061, 1, 126>>,
      <<8112, 8113, 1, 8>>, <<8126, 8126, 1, -7205>>, <<8144, 8145, 1, 8>>,
      <<8160, 8161, 1, 8>>, <<8165, 8165, 1, 7>>, <<8526, 8526, 1, -28>>,
      <<8560, 8575, 1, -16>>, <<8580, 8580, 1, -1>>, <<9424, 9449, 1, -26>>,
      <<11312, 11359, 1, -48>>, <<11361, 11361, 1, -1>>, <<11365, 11365, 1, -10795>>,
      <<11366, 11366, 1, -10792>>, <<11368, 11372, 2, -1>>, <<11379, 11379, 1, -1>>,
      <<11382, 11382, 1, -1>>, <<11393, 11491, 2, -1>>, <<11500, 11502, 2, -1>>,
      <<11507, 11507, 1, -1>>, <<11520, 11557, 1, -7264>>, <<11559, 11559, 1, -7264>>,
      <<11565, 11565, 1, -7264>>, <<42561, 42605, 2, -1>>, <<42625, 42651, 2, -1>>,
      <<42787, 42799, 2, -1>>, <<42803, 42863, 2, -1>>, <<42874, 42876, 2, -1>>,
      <<42879, 42887, 2, -1>>, <<42892, 42892, 1, -1>>, <<42897, 42899, 2, -1>>,
      <<42900, 42900, 1, 48>>, <<42903, 42921, 2, -1>>, <<42933, 42947, 2, -1>>,
      <<42952, 42954, 2, -1>>, <<42961, 42961, 1, -1>>, <<42967, 42969, 2, -1>>,
      <<42998, 42998, 1, -1>>, <<43859, 43859, 1, -928>>, <<43888, 43967, 1, -38864>>,
      <<65345, 65370, 1, -32>>, <<66600, 66639, 1, -40>>, <<66776, 66811, 1, -40>>,
      <<66967, 66977, 1, -39>>, <<66979, 66993, 1, -39>>, <<66995, 67001, 1, -39>>,
      <<67003, 67004, 1, -39>>, <<68800, 68850, 1, -64>>, <<71872, 71903, 1, -32>>,
      <<93792, 93823, 1, -32>>, <<125218, 125251, 1, -34>>>>

\* the code points whose uppercase mapping has two or three code points
UpperSpecial ==
    <<<<223, <<83, 83>>>>, <<329, <<700, 78>>>>, <<496, <<74, 780>>>>,
      <<912, <<921, 776, 769>>>>, <<944, <<933, 776, 769>>>>, <<1415, <<1333, 1362>>>>,
      <<7830, <<72, 817>>>>, <<7831, <<84, 776>>>>, <<7832, <<87, 778>>>>,
      <<7833, <<89, 778>>>>, <<7834, <<65, 702>>>>, <<8016, <<933, 787>>>>,
      <<8018, <<933, 787, 768>>>>, <<8020, <<933, 787, 769>>>>,
      <<8022, <<933, 787, 834>>>>, <<8064, <<7944, 921>>>>, <<8065, <<7945, 921>>>>,
      <<8066, <<7946, 921>>>>, <<8067, <<7947, 921>>>>, <<8068, <<7948, 921>>>>,
      <<8069, <<7949, 921>>>>, <<8070, <<7950, 921>>>>, <<8071, <<7951, 921>>>>,
      <<8072, <<7944, 921>>>>, <<8073, <<7945, 921>>>>, <<8074, <<7946, 921>>>>,
      <<8075, <<7947, 921>>>>, <<8076, <<7948, 921>>>>, <<8077, <<7949, 921>>>>,
      <<8078, <<7950, 921>>>>, <<8079, <<7951, 921>>>>, <<8080, <<7976, 921>>>>,
      <<8081, <<7977, 921>>>>, <<8082, <<7978, 921>>>>, <<8083, <<7979, 921>>>>,
      <<8084, <<7980, 921>>>>, <<8085, <<7981, 921>>>>, <<8086, <<7982, 921>>>>,
      <<8087, <<7983, 921>>>>, <<8088, <<7976, 921>>>>, <<8089, <<7977, 921>>>>,
      <<8090, <<7978, 921>>>>, <<8091, <<7979, 921>>>>, <<8092, <<7980, 921>>>>,
      <<8093, <<7981, 921>>>>, <<8094, <<7982, 921>>>>, <<8095, <<7983, 921>>>>,
      <<8096, <<8040, 921>>>>, <<8097, <<8041, 921>>>>, <<8098, <<8042, 921>>>>,
      <<8099, <<8043, 921>>>>, <<8100, <<8044, 921>>>>, <<8101, <<8045, 921>>>>,
      <<8102, <<8046, 921>>>>, <<8103, <<8047, 921>>>>, <<8104, <<8040, 921>>>>,
      <<8105, <<8041, 921>>>>, <<8106, <<8042, 921>>>>, <<8107, <<8043, 921>>>>,
      <<8108, <<8044, 921>>>>, <<8109, <<8045, 921>>>>, <<8110, <<8046, 921>>>>,
      <<8111, <<8047, 921>>>>, <<8114, <<8122, 921>>>>, <<8115, <<913, 921>>>>,
      <<8116, <<902, 921>>>>, <<8118, <<913, 834>>>>, <<8119, <<913, 834, 921>>>>,
      <<8124, <<913, 921>>>>, <<8130, <<8138, 921>>>>, <<8131, <<919, 921>>>>,
      <<8132, <<905, 921>>>>, <<8134, <<919, 834>>>>, <<8135, <<919, 834, 921>>>>,
      <<8140, <<919, 921>>>>, <<8146, <<921, 776, 768>>>>, <<8147, <<921, 776, 769>>>>,
      <<8150, <<921, 834>>>>, <<8151, <<921, 776, 834>>>>, <<8162, <<933, 776, 768>>>>,
      <<8163, <<933, 776, 769>>>>, <<8164, <<929, 787>>>>, <<8166, <<933, 834>>>>,
      <<8167, <<933, 776, 834>>>>, <<8178, <<8186, 921>>>>, <<8179, <<937, 921>>>>,
      <<8180, <<911, 921>>>>, <<8182, <<937, 834>>>>, <<8183, <<937, 834, 921>>>>,
      <<8188, <<937, 921>>>>, <<64256, <<70, 70>>>>, <<64257, <<70, 73>>>>,
      <<64258, <<70, 76>>>>, <<64259, <<70, 70, 73>>>>, <<64260, <<70, 70, 76>>>>,
      <<64261, <<83, 84>>>>, <<64262, <<83, 84>>>>, <<64275, <<1348, 1350>>>>,
      <<64276, <<1348, 1333>>>>, <<64277, <<1348, 1339>>>>, <<64278, <<1358, 1350>>>>,
      <<64279, <<1348, 1341>>>>>>

\* the case-ignorable code points, as ranges
CaseIgnorableRanges ==
    <<<<39, 39>>, <<46, 46>>, <<58, 58>>, <<94, 94>>, <<96, 96>>, <<168, 168>>,
      <<173, 173>>, <<175, 175>>, <<180, 180>>, <<183, 184>>, <<688, 879>>,
      <<884, 885>>, <<890, 890>>, <<900, 901>>, <<903, 903>>, <<1155, 1161>>,
      <<1369, 1369>>, <<1375, 1375>>, <<1425, 1469>>, <<1471, 1471>>, <<1473, 1474>>,
      <<1476, 1477>>, <<1479, 1479>>, <<1524, 1524>>, <<1536, 1541>>, <<1552, 1562>>,
      <<1564, 1564>>, <<1600, 1600>>, <<1611, 1631>>, <<1648, 1648>>, <<1750, 1757>>,
      <<1759, 1768>>, <<1770, 1773>>, <<1807, 1807>>, <<1809, 1809>>, <<1840, 1866>>,
      <<1958, 1968>>, <<2027, 2037>>, <<2042, 2042>>, <<2045, 2045>>, <<2070, 2093>>,
      <<2137, 2139>>, <<2184, 2184>>, <<2192, 2193>>, <<2200, 2207>>, <<2249, 2306>>,
      <<2362, 2362>>, <<2364, 2364>>, <<2369, 2376>>, <<2381, 2381>>, <<2385, 2391>>,
      <<2402, 2403>>, <<2417, 2417>>, <<2433, 2433>>, <<2492, 2492>>, <<2497, 2500>>,
      <<2509, 2509>>, <<2530, 2531>>, <<2558, 2558>>, <<2561, 2562>>, <<2620, 2620>>,
      <<2625, 2626>>, <<2631, 2632>>, <<2635, 2637>>, <<2641, 2641>>, <<2672, 2673>>,
      <<2677, 2677>>, <<2689, 2690>>, <<2748, 2748>>, <<2753, 2757>>, <<2759, 2760>>,
      <<2765, 2765>>, <<2786, 2787>>, <<2810, 2815>>, <<2817, 2817>>, <<2876, 2876>>,
      <<2879, 2879>>, <<2881, 2884>>, <<2893, 2893>>, <<2901, 2902>>, <<2914, 2915>>,
      <<2946, 2946>>, <<3008, 3008>>, <<3021, 3021>>, <<3072, 3072>>, <<3076, 3076>>,
      <<3132, 3132>>, <<3134, 3136>>, <<3142, 3144>>, <<3146, 3149>>, <<3157, 3158>>,
      <<3170, 3171>>, <<3201, 3201>>, <<3260, 3260>>, <<3263, 3263>>, <<3270, 3270>>,
      <<3276, 3277>>, <<3298, 3299>>, <<3328, 3329>>, <<3387, 3388>>, <<3393, 3396>>,
      <<3405, 3405>>, <<3426, 3427>>, <<3457, 3457>>, <<3530, 3530>>, <<3538, 3540>>,
      <<3542, 3542>>, <<3633, 3633>>, <<3636, 3642>>, <<3654, 3662>>, <<3761, 3761>>,
      <<3764, 3772>>, <<3782, 3782>>, <<3784, 3789>>, <<3864, 3865>>, <<3893, 3893>>,
      <<3895, 3895>>, <<3897, 3897>>, <<3953, 3966>>, <<3968, 3972>>, <<3974, 3975>>,
      <<3981, 3991>>, <<3993, 4028>>, <<4038, 4038>>, <<4141, 4144>>, <<4146, 4151>>,
      <<4153, 4154>>, <<4157, 4158>>, <<4184, 4185>>, <<4190, 4192>>, <<4209, 4212>>,
      <<4226, 4226>>, <<4229, 4230>>, <<4237, 4237>>, <<4253, 4253>>, <<4348, 4348>>,
      <<4957, 4959>>, <<5906, 5908>>, <<5938, 5939>>, <<5970, 5971>>, <<6002, 6003>>,
      <<6068, 6069>>, <<6071, 6077>>, <<6086, 6086>>, <<6089, 6099>>, <<6103, 6103>>,
      <<6109, 6109>>, <<6155, 6159>>, <<6211, 6211>>, <<6277, 6278>>, <<6313, 6313>>,
      <<6432, 6434>>, <<6439, 6440>>, <<6450, 6450>>, <<6457, 6459>>, <<6679, 6680>>,
      <<6683, 6683>>, <<6742, 6742>>, <<6744, 6750>>, <<6752, 6752>>, <<6754, 6754>>,
      <<6757, 6764>>, <<6771, 6780>>, <<6783, 6783>>, <<6823, 6823>>, <<6832, 6862>>,
      <<6912, 6915>>, <<6964, 6964>>, <<6966, 6970>>, <<6972, 6972>>, <<6978, 6978>>,
      <<7019, 7027>>, <<7040, 7041>>, <<7074, 7077>>, <<7080, 7081>>, <<7083, 7085>>,
      <<7142, 7142>>, <<7144, 7145>>, <<7149, 7149>>, <<7151, 7153>>, <<7212, 7219>>,
      <<7222, 7223>>, <<7288, 7293>>, <<7376, 7378>>, <<7380, 7392>>, <<7394, 7400>>,
      <<7405, 7405>>, <<7412, 7412>>, <<7416, 7417>>, <<7468, 7530>>, <<7544, 7544>>,
      <<7579, 7679>>, <<8125, 8125>>, <<8127, 8129>>, <<8141, 8143>>, <<8157, 8159>>,
      <<8173, 8175>>, <<8189, 8190>>, <<8203, 8207>>, <<8216, 8217>>, <<8228, 8228>>,
      <<8231, 8231>>, <<8234, 8238>>, <<8288, 8292>>, <<8294, 8303>>, <<8305, 8305>>,
      <<8319, 8319>>, <<8336, 8348>>, <<8400, 8432>>, <<11388, 11389>>,
      <<11503, 11505>>, <<11631, 11631>>, <<11647, 11647>>, <<11744, 11775>>,
      <<11823, 11823>>, <<12293, 12293>>, <<12330, 12333>>, <<12337, 12341>>,
      <<12347, 12347>>, <<12441, 12446>>, <<12540, 12542>>, <<40981, 40981>>,
      <<42232, 42237>>, <<42508, 42508>>, <<42607, 42610>>, <<42612, 42621>>,
      <<42623, 42623>>, <<42652, 42655>>, <<42736, 42737>>, <<42752, 42785>>,
      <<42864, 42864>>, <<42888, 42890>>, <<42994, 42996>>, <<43000, 43001>>,
      <<43010, 43010>>, <<43014, 43014>>, <<43019, 43019>>, <<43045, 43046>>,
      <<43052, 43052>>, <<43204, 43205>>, <<43232, 43249>>, <<43263, 43263>>,
      <<43302, 43309>>, <<43335, 43345>>, <<43392, 43394>>, <<43443, 43443>>,
      <<43446, 43449>>, <<43452, 43453>>, <<43471, 43471>>, <<43493, 43494>>,
      <<43561, 43566>>, <<43569, 43570>>, <<43573, 43574>>, <<43587, 43587>>,
      <<43596, 43596>>, <<43632, 43632>>, <<43644, 43644>>, <<43696, 43696>>,
      <<43698, 43700>>, <<43703, 43704>>, <<43710, 43711>>, <<43713, 43713>>,
      <<43741, 43741>>, <<43756, 43757>>, <<43763, 43764>>, <<43766, 43766>>,
      <<43867, 43871>>, <<43881, 43883>>, <<44005, 44005>>, <<44008, 44008>>,
      <<44013, 44013>>, <<64286, 64286>>, <<64434, 64450>>, <<65024, 65039>>,
      <<65043, 65043>>, <<65056, 65071>>, <<65106, 65106>>, <<65109, 65109>>,
      <<65279, 65279>>, <<65287, 65287>>, <<65294, 65294>>, <<65306, 65306>>,
      <<65342, 65342>>, <<65344, 65344>>, <<65392, 65392>>, <<65438, 65439>>,
      <<65507, 65507>>, <<65529, 65531>>, <<66045, 66045>>, <<66272, 66272>>,
      <<66422, 66426>>, <<67456, 67461>>, <<67463, 67504>>, <<67506, 67514>>,
      <<68097, 68099>>, <<68101, 68102>>, <<68108, 68111>>, <<68152, 68154>>,
      <<68159, 68159>>, <<68325, 68326>>, <<68900, 68903>>, <<69291, 69292>>,
      <<69446, 69456>>, <<69506, 69509>>, <<69633, 69633>>, <<69688, 69702>>,
      <<69744, 69744>>, <<69747, 69748>>, <<69759, 69761>>, <<69811, 69814>>,
      <<69817, 69818>>, <<69821, 69821>>, <<69826, 69826>>, <<69837, 69837>>,
      <<69888, 69890>>, <<69927, 69931>>, <<69933, 69940>>, <<70003, 70003>>,
      <<70016, 70017>>, <<70070, 70078>>, <<70089, 70092>>, <<70095, 70095>>,
      <<70191, 70193>>, <<70196, 70196>>, <<70198, 70199>>, <<70206, 70206>>,
      <<70367, 70367>>, <<70371, 70378>>, <<70400, 70401>>, <<70459, 70460>>,
      <<70464, 70464>>, <<70502, 70508>>, <<70512, 70516>>, <<70712, 70719>>,
      <<70722, 70724>>, <<70726, 70726>>, <<70750, 70750>>, <<70835, 70840>>,
      <<70842, 70842>>, <<70847, 70848>>, <<70850, 70851>>, <<71090, 71093>>,
      <<71100, 71101>>, <<71103, 71104>>, <<71132, 71133>>, <<71219, 71226>>,
      <<71229, 71229>>, <<71231, 71232>>, <<71339, 71339>>, <<71341, 71341>>,
      <<71344, 71349>>, <<71351, 71351>>, <<71453, 71455>>, <<71458, 71461>>,
      <<71463, 71467>>, <<71727, 71735>>, <<71737, 71738>>, <<71995, 71996>>,
      <<71998, 71998>>, <<72003, 72003>>, <<72148, 72151>>, <<72154, 72155>>,
      <<72160, 72160>>, <<72193, 72202>>, <<72243, 72248>>, <<72251, 72254>>,
      <<72263, 72263>>, <<72273, 72278>>, <<72281, 72283>>, <<72330, 72342>>,
      <<72344, 72345>>, <<72752, 72758>>, <<72760, 72765>>, <<72767, 72767>>,
      <<72850, 72871>>, <<72874, 72880>>, <<72882, 72883>>, <<72885, 72886>>,
      <<73009, 73014>>, <<73018, 73018>>, <<73020, 73021>>, <<73023, 73029>>,
      <<73031, 73031>>, <<73104, 73105>>, <<73109, 73109>>, <<73111, 73111>>,
      <<73459, 73460>>, <<78896, 78904>>, <<92912, 92916>>, <<92976, 92982>>,
      <<92992, 92995>>, <<94031, 94031>>, <<94095, 94111>>, <<94176, 94177>>,
      <<94179, 94180>>, <<110576, 110579>>, <<110581, 110587>>, <<110589, 110590>>,
      <<113821, 113822>>, <<113824, 113827>>, <<118528, 118573>>, <<118576, 118598>>,
      <<119143, 119145>>, <<119155, 119170>>, <<119173, 119179>>, <<119210, 119213>>,
      <<119362, 119364>>, <<121344, 121398>>, <<121403, 121452>>, <<121461, 121461>>,
      <<121476, 121476>>, <<121499, 121503>>, <<121505, 121519>>, <<122880, 122886>>,
      <<122888, 122904>>, <<122907, 122913>>, <<122915, 122916>>, <<122918, 122922>>,
      <<123184, 123197>>, <<123566, 123566>>, <<123628, 123631>>, <<125136, 125142>>,
      <<125252, 125259>>, <<127995, 127999>>, <<917505, 917505>>, <<917536, 917631>>,
      <<917760, 917999>>>>

\* the cased code points that are not case-ignorable, as ranges
CasedRanges ==
    <<<<65, 90>>, <<97, 122>>, <<170, 170>>, <<181, 181>>, <<186, 186>>, <<192, 214>>,
      <<216, 246>>, <<248, 442>>, <<444, 447>>, <<452, 659>>, <<661, 687>>,
      <<880, 883>>, <<886, 887>>, <<891, 893>>, <<895, 895>>, <<902, 902>>,
      <<904, 906>>, <<908, 908>>, <<910, 929>>, <<931, 1013>>, <<1015, 1153>>,
      <<1162, 1327>>, <<1329, 1366>>, <<1376, 1416>>, <<4256, 4293>>, <<4295, 4295>>,
      <<4301, 4301>>, <<4304, 4346>>, <<4349, 4351>>, <<5024, 5109>>, <<5112, 5117>>,
      <<7296, 7304>>, <<7312, 7354>>, <<7357, 7359>>, <<7424, 7467>>, <<7531, 7543>>,
      <<7545, 7578>>, <<7680, 7957>>, <<7960, 7965>>, <<7968, 8005>>, <<8008, 8013>>,
      <<8016, 8023>>, <<8025, 8025>>, <<8027, 8027>>, <<8029, 8029>>, <<8031, 8061>>,
      <<8064, 8116>>, <<8118, 8124>>, <<8126, 8126>>, <<8130, 8132>>, <<8134, 8140>>,
      <<8144, 8147>>, <<8150, 8155>>, <<8160, 8172>>, <<8178, 8180>>, <<8182, 8188>>,
      <<8450, 8450>>, <<8455, 8455>>, <<8458, 8467>>, <<8469, 8469>>, <<8473, 8477>>,
      <<8484, 8484>>, <<8486, 8486>>, <<8488, 8488>>, <<8490, 8493>>, <<8495, 8500>>,
      <<8505, 8505>>, <<8508, 8511>>, <<8517, 8521>>, <<8526, 8526>>, <<8544, 8575>>,
      <<8579, 8580>>, <<9398, 9449>>, <<11264, 11387>>, <<11390, 11492>>,
      <<11499, 11502>>, <<11506, 11507>>, <<11520, 11557>>, <<11559, 11559>>,
      <<11565, 11565>>, <<42560, 42605>>, <<42624, 42651>>, <<42786, 42863>>,
      <<42865, 42887>>, <<42891, 42894>>, <<42896, 42954>>, <<42960, 42961>>,
      <<42963, 42963>>, <<42965, 42969>>, <<42997, 42998>>, <<43002, 43002>>,
      <<43824, 43866>>, <<43872, 43880>>, <<43888, 43967>>, <<64256, 64262>>,
      <<64275, 64279>>, <<65313, 65338>>, <<65345, 65370>>, <<66560, 66639>>,
      <<66736, 66771>>, <<66776, 66811>>, <<66928, 66938>>, <<66940, 66954>>,
      <<66956, 66962>>, <<66964, 66965>>, <<66967, 66977>>, <<66979, 66993>>,
      <<66995, 67001>>, <<67003, 67004>>, <<68736, 68786>>, <<68800, 68850>>,
      <<71840, 71903>>, <<93760, 93823>>, <<119808, 119892>>, <<119894, 119964>>,
      <<119966, 119967>>, <<119970, 119970>>, <<119973, 119974>>, <<119977, 119980>>,
      <<119982, 119993>>, <<119995, 119995>>, <<119997, 120003>>, <<120005, 120069>>,
      <<120071, 120074>>, <<120077, 120084>>, <<120086, 120092>>, <<120094, 120121>>,
      <<120123, 120126>>, <<120128, 120132>>, <<120134, 120134>>, <<120138, 120144>>,
      <<120146, 120485>>, <<120488, 120512>>, <<120514, 120538>>, <<120540, 120570>>,
      <<120572, 120596>>, <<120598, 120628>>, <<120630, 120654>>, <<120656, 120686>>,
      <<120688, 120712>>, <<120714, 120744>>, <<120746, 120770>>, <<120772, 120779>>,
      <<122624, 122633>>, <<122635, 122654>>, <<125184, 125251>>, <<127280, 127305>>,
      <<127312, 127337>>, <<127344, 127369>>>>

\* the decimal digits (category Nd), as ranges: each holds the digits 0 to 9 in
\* order, once or several times
DecimalRanges ==
    <<<<48, 57>>, <<1632, 1641>>, <<1776, 1785>>, <<1984, 1993>>, <<2406, 2415>>,
      <<2534, 2543>>, <<2662, 2671>>, <<2790, 2799>>, <<2918, 2927>>, <<3046, 3055>>,
      <<3174, 3183>>, <<3302, 3311>>, <<3430, 3439>>, <<3558, 3567>>, <<3664, 3673>>,
      <<3792, 3801>>, <<3872, 3881>>, <<4160, 4169>>, <<4240, 4249>>, <<6112, 6121>>,
      <<6160, 6169>>, <<6470, 6479>>, <<6608, 6617>>, <<6784, 6793>>, <<6800, 6809>>,
      <<6992, 7001>>, <<7088, 7097>>, <<7232, 7241>>, <<7248, 7257>>, <<42528, 42537>>,
      <<43216, 43225>>, <<43264, 43273>>, <<43472, 43481>>, <<43504, 43513>>,
      <<43600, 43609>>, <<44016, 44025>>, <<65296, 65305>>, <<66720, 66729>>,
      <<68912, 68921>>, <<69734, 69743>>, <<69872, 69881>>, <<69942, 69951>>,
      <<70096, 70105>>, <<70384, 70393>>, <<70736, 70745>>, <<70864, 70873>>,
      <<71248, 71257>>, <<71360, 71369>>, <<71472, 71481>>, <<71904, 71913>>,
      <<72016, 72025>>, <<72784, 72793>>, <<73040, 73049>>, <<73120, 73129>>,
      <<92768, 92777>>, <<92864, 92873>>, <<93008, 93017>>, <<120782, 120831>>,
      <<123200, 123209>>, <<123632, 123641>>, <<125264, 125273>>, <<130032, 130041>>>>

\* the lowercase mapping of c in one code point (for U+0130 it is 'i'); the
\* first rule of LowerRules is the one of ASCII
LowerChar(c) ==
    IF c < 128 THEN (IF c >= 65 /\ c <= 90 THEN c + 32 ELSE c)
    ELSE CaseMapped(LowerRules, c)

IsCaseIgnorable(c) == InRanges(CaseIgnorableRanges, c)
IsCased(c) == InRanges(CasedRanges, c)

RECURSIVE SkipIgnorable(_, _, _)
\* the first index from i on, in steps of dir, whose code point is not
\* case-ignorable; 0 or Len(s) + 1 when there is none
SkipIgnorable(s, i, dir) ==
    IF i < 1 \/ i > Len(s) THEN i
    ELSE IF IsCaseIgnorable(s[i]) THEN SkipIgnorable(s, i + dir, dir)
    ELSE i

\* s has a cased code point at i
CasedAt(s, i) == i >= 1 /\ i <= Len(s) /\ IsCased(s[i])

\* the capital sigma at i ends a word: a cased code point comes before it and
\* none after it, case-ignorable code points not counting
FinalSigma(s, i) ==
    /\ CasedAt(s, SkipIgnorable(s, i - 1, 0 - 1))
    /\ ~CasedAt(s, SkipIgnorable(s, i + 1, 1))

\* what str.lower() makes of s[i]: U+03A3 depends on its place in the word,
\* U+0130 becomes 'i' and U+0307
LowerAt(s, i) ==
    IF s[i] = 931 THEN (IF FinalSigma(s, i) THEN <<962>> ELSE <<963>>)
    ELSE IF s[i] = 304 THEN <<105, 775>>
    ELSE <<LowerChar(s[i])>>

RECURSIVE LowerFrom(_, _)
LowerFrom(s, i) == IF i > Len(s) THEN <<>> ELSE LowerAt(s, i) \o LowerFrom(s, i + 1)

\* str.lower(); a str of ASCII has neither U+03A3 nor U+0130
Lower(s) ==
    IF \A i \in 1..Len(s) : s[i] < 128 THEN [i \in 1..Len(s) |-> LowerChar(s[i])]
    ELSE LowerFrom(s, 1)

\* what str.upper() makes of the code point c
UpperBy(c, i) ==
    IF i > 0 /\ UpperSpecial[i][1] = c THEN UpperSpecial[i][2]
    ELSE <<CaseMapped(UpperRules, c)>>

UpperChar(c) ==
    IF c < 128 THEN <<IF c >= 97 /\ c <= 122 THEN c - 32 ELSE c>>
    ELSE UpperBy(c, Row(UpperSpecial, c))

RECURSIVE UpperFrom(_, _)
UpperFrom(s, i) == IF i > Len(s) THEN <<>> ELSE UpperChar(s[i]) \o UpperFrom(s, i + 1)

\* str.upper(); of a str of ASCII every code point maps to one code point
Upper(s) ==
    IF \A i \in 1..Len(s) : s[i] < 128 THEN [i \in 1..Len(s) |-> UpperChar(s[i])[1]]
    ELSE UpperFrom(s, 1)

\* what \d matches in a str pattern, and float() and int() read as a digit
IsDigit(c) == IF c < 128 THEN c >= 48 /\ c <= 57 ELSE InRanges(DecimalRanges, c)

\* the digit c stands for
DigitValue(c) == (c - DecimalRanges[Row(DecimalRanges, c)][1]) % 10

\* what str.split() and str.strip() take for whitespace: the code points c
\* with chr(c).isspace()
IsSpace(c) ==
    \/ c \in {9, 10, 11, 12, 13, 28, 29, 30, 31, 32, 133, 160}
    \/ c \in {5760, 8232, 8233, 8239, 8287, 12288}
    \/ (c >= 8192 /\ c <= 8202)

RECURSIVE JoinSpace(_)
\* " ".join(parts)
JoinSpace(parts) ==
    IF parts = <<>> THEN <<>>
    ELSE IF Len(parts) = 1 THEN parts[1]
    ELSE parts[1] \o <<32>> \o JoinSpace(Tail(parts))

\* s[:n] for n >= 0
Take(s, n) == SubSeq(s, 1, IF n < Len(s) THEN n ELSE Len(s))

\* [x for x in s if x in keep], as indices: the i-th kept position
RECURSIVE SelectIdx(_, _)
SelectIdx(flags, i) ==
    IF i > Len(flags) THEN <<>>
    ELSE (IF flags[i] THEN <<i>> ELSE <<>>) \o SelectIdx(flags, i + 1)

-----------------------------------------------------------------------------
(* Natural numbers of any size *)

\* A natural number as its digits in base BigBase = 2^15, lowest first,
\* without high zeros; zero is the empty sequence.
BigBase == 32768

RECURSIVE BigOfInt(_)
\* the number n >= 0
BigOfInt(n) == IF n = 0 THEN <<>> ELSE <<n % BigBase>> \o BigOfInt(n \div BigBase)

RECURSIVE BigToInt(_)
\* the Int of a number below 2^31
BigToInt(a) == IF a = <<>> THEN 0 ELSE a[1] + BigBase * BigToInt(Tail(a))

LowDigit(a) == IF a = <<>> THEN 0 ELSE a[1]
HighDigits(a) == IF a = <<>> THEN <<>> ELSE Tail(a)

RECURSIVE BigTrim(_)
\* a without its high zeros
BigTrim(a) ==
    IF a # <<>> /\ a[Len(a)] = 0 THEN BigTrim(SubSeq(a, 1, Len(a) - 1)) ELSE a

RECURSIVE BigAddCarry(_, _, _)
BigAddCarry(a, b, carry) ==
    IF a = <<>> /\ b = <<>> THEN (IF carry = 0 THEN <<>> ELSE <<carry>>)
    ELSE <<(LowDigit(a) + LowDigit(b) + carry) % BigBase>>
         \o BigAddCarry(HighDigits(a), HighDigits(b),
                        (LowDigit(a) + LowDigit(b) + carry) \div BigBase)

\* a + b
BigAdd(a, b) == BigAddCarry(a, b, 0)

RECURSIVE BigSubBorrow(_, _, _)
BigSubBorrow(a, b, borrow) ==
    IF a = <<>> THEN <<>>
    ELSE <<(LowDigit(a) - LowDigit(b) - borrow + BigBase) % BigBase>>
         \o BigSubBorrow(HighDigits(a), HighDigits(b),
                         IF LowDigit(a) - LowDigit(b) - borrow < 0 THEN 1 ELSE 0)

\* a - b for a >= b
BigSub(a, b) == BigTrim(BigSubBorrow(a, b, 0))

RECURSIVE BigMulCarry(_, _, _)
BigMulCarry(a, n, carry) ==
    IF a = <<>> THEN BigOfInt(carry)
    ELSE <<(a[1] * n + carry) % BigBase>>
         \o BigMulCarry(Tail(a), n, (a[1] * n + carry) \div BigBase)

\* a * n for 0 <= n <= BigBase
BigMulSmall(a, n) == IF n = 0 THEN <<>> ELSE BigMulCarry(a, n, 0)

RECURSIVE BigMul(_, _)
\* a * b
BigMul(a, b) ==
    IF b = <<>> THEN <<>>
    ELSE BigAdd(BigMulSmall(a, b[1]),
                IF a = <<>> \/ Tail(b) = <<>> THEN <<>> ELSE <<0>> \o BigMul(a, Tail(b)))

RECURSIVE BigLessFrom(_, _, _)
\* a < b for numbers of the same length, compared from digit i down
BigLessFrom(a, b, i) ==
    IF i = 0 THEN FALSE
    ELSE IF a[i] # b[i] THEN a[i] < b[i]
    ELSE BigLessFrom(a, b, i - 1)

\* a < b
BigLess(a, b) ==
    IF Len(a) # Len(b) THEN Len(a) < Len(b) ELSE BigLessFrom(a, b, Len(a))

RECURSIVE BigPow(_, _)
\* n ^ k for 0 < n <= BigBase
BigPow(n, k) == IF k = 0 THEN <<1>> ELSE BigMulSmall(BigPow(n, k - 1), n)

\* a * 2^k for k >= 0: k \div 15 whole digits and k % 15 bits
BigShift(a, k) ==
    IF a = <<>> THEN <<>>
    ELSE [i \in 1..(k \div 15) |-> 0] \o BigMulSmall(a, 2^(k % 15))

\* the element of a set of one element; {F(x) : x \in {v}} is {F(v)} with v
\* computed before F is applied to it
The(S) == CHOOSE x \in S : TRUE

\* from qr, the quotient and remainder by 64 * d, to those by d, j being the
\* next digit of the quotient in base 64
BigDivDigit(qr, d, j) ==
    <<BigAdd(BigMulSmall(qr[1], 64), BigOfInt(j)), BigSub(qr[2], BigMulSmall(d, j))>>

BigDivStep(qr, d) ==
    BigDivDigit(qr, d, CHOOSE j \in 0..63 : /\ ~BigLess(qr[2], BigMulSmall(d, j))
                                           /\ BigLess(qr[2], BigMulSmall(d, j + 1)))

\* from qr, the quotient and remainder by 2^18 * d, to those by d
BigDivSteps(qr, d) ==
    The({BigDivStep(q1, d) :
            q1 \in {BigDivStep(q2, BigShift(d, 6)) :
                      q2 \in {BigDivStep(qr, BigShift(d, 12))}}})

RECURSIVE BigDivMod(_, _)
\* <<n div d, n mod d>> for d > 0, three digits of the quotient at a time
BigDivMod(n, d) ==
    IF BigLess(n, d) THEN <<<<>>, n>>
    ELSE The({BigDivSteps(qr, d) : qr \in {BigDivMod(n, BigShift(d, 18))}})

\* the integer nearest to n / d for d > 0, ties to even, from qr = BigDivMod(n, d)
BigNearest(qr, d) ==
    IF BigLess(d, BigMulSmall(qr[2], 2))
       \/ (d = BigMulSmall(qr[2], 2) /\ LowDigit(qr[1]) % 2 = 1)
    THEN BigAdd(qr[1], <<1>>)
    ELSE qr[1]

\* round(n / d) for d > 0, ties to even
BigRoundDiv(n, d) == The({BigNearest(qr, d) : qr \in {BigDivMod(n, d)}})

-----------------------------------------------------------------------------
(* Python floats: IEEE 754 binary64, round to nearest, ties to even *)

\* A float is [neg, m, e] for (-1)^neg * m * 2^e: m is zero for 0.0, else
\* 2^52 <= m < 2^53.  (The amounts of the model are far from the subnormal
\* and the infinite range, and no operation below tells -0.0 from 0.0.)
Two52 == <<0, 0, 0, 128>>                \* 2^52 = 2^7 * 2^45
Two53 == <<0, 0, 0, 256>>                \* 2^53 = 2^8 * 2^45
FloatZero == [neg |-> FALSE, m |-> <<>>, e |-> 0]
FloatOne == [neg |-> FALSE, m |-> Two52, e |-> 0 - 52]

Abs(n) == IF n < 0 THEN 0 - n ELSE n
Min(a, b) == IF a < b THEN a ELSE b
Max(a, b) == IF a < b THEN b ELSE a

\* a * 2^s for s > 0, else a
FloatShifted(a, s) == IF s > 0 THEN BigShift(a, s) ELSE a

\* 2^52 <= n / d * 2^s < 2^(52 + w)
FloatInRange(n, d, s, w) ==
    /\ ~BigLess(FloatShifted(n, s), BigShift(FloatShifted(d, 0 - s), 52))
    /\ BigLess(FloatShifted(n, s), BigShift(FloatShifted(d, 0 - s), 52 + w))

\* the multiple s of 13 with 2^52 <= n / d * 2^s < 2^65, for a quotient
\* between 2^-78 and 2^195
FloatCoarse(n, d) == 13 * (CHOOSE c \in (0 - 10)..10 : FloatInRange(n, d, 13 * c, 13))

\* the s with 2^52 <= n / d * 2^s < 2^53, c being FloatCoarse(n, d)
FloatFine(n, d, c) == c - (CHOOSE f \in 0..12 : FloatInRange(n, d, c - f, 1))

\* n / d * 2^e as <<n', d', e'>> with n' / d' = n / d * 2^s
FloatScaled(n, d, e, s) == <<FloatShifted(n, s), FloatShifted(d, 0 - s), e - s>>

\* <<n', d', e'>> with n / d * 2^e = n' / d' * 2^e' and 2^52 <= n' / d' < 2^53
FloatScale(n, d, e) ==
    The({FloatScaled(n, d, e, s) : s \in {FloatFine(n, d, c) : c \in {FloatCoarse(n, d)}}})

\* the float of the mantissa m <= 2^53 and the exponent e
FloatOfMantissa(neg, m, e) ==
    IF m = Two53 THEN [neg |-> neg, m |-> Two52, e |-> e + 1]
    ELSE [neg |-> neg, m |-> m, e |-> e]

\* the float nearest to n' / d' * 2^e', s = <<n', d', e'>> being scaled
FloatOfScaled(neg, s) == FloatOfMantissa(neg, BigRoundDiv(s[1], s[2]), s[3])

\* the float nearest to (-1)^neg * n / d * 2^e, for d > 0
FloatNearest(neg, n, d, e) ==
    IF n = <<>> THEN FloatZero
    ELSE The({FloatOfScaled(neg, s) : s \in {FloatScale(n, dd, e) : dd \in {d}}})

\* float(text) for the decimal m / 10^k
FloatOfDecimal(m, k) == FloatNearest(m < 0, BigOfInt(Abs(m)), BigPow(10, k), 0)

\* the float of the sum of a and b, numbers of units 2^e with the signs aneg, bneg
FloatOfSum(aneg, a, bneg, b, e) ==
    IF aneg = bneg THEN FloatNearest(aneg, BigAdd(a, b), <<1>>, e)
    ELSE IF BigLess(a, b) THEN FloatNearest(bneg, BigSub(b, a), <<1>>, e)
    ELSE FloatNearest(aneg, BigSub(a, b), <<1>>, e)

\* x + y
FloatAdd(x, y) ==
    IF x.m = <<>> THEN y
    ELSE IF y.m = <<>> THEN x
    ELSE FloatOfSum(x.neg, BigShift(x.m, x.e - Min(x.e, y.e)),
                    y.neg, BigShift(y.m, y.e - Min(x.e, y.e)), Min(x.e, y.e))

\* x - y
FloatSub(x, y) == FloatAdd(x, [y EXCEPT !.neg = ~y.neg])

\* x / y for y # 0.0
FloatDiv(x, y) == FloatNearest(x.neg # y.neg, x.m, y.m, x.e - y.e)

\* x * n for a natural n <= BigBase
FloatMulInt(x, n) == FloatNearest(x.neg, BigMulSmall(x.m, n), <<1>>, x.e)

\* x / n for a natural 0 < n <= BigBase
FloatDivInt(x, n) == FloatNearest(x.neg, x.m, BigOfInt(n), x.e)

\* round(x, 2) in hundredths: float.__round__ takes the decimal with two
\* places nearest to the exact value of x, ties to even
FloatRound2(x) ==
    (IF x.neg THEN 0 - 1 ELSE 1)
    * BigToInt(IF x.e >= 0 THEN BigShift(BigMulSmall(x.m, 100), x.e)
               ELSE BigRoundDiv(BigMulSmall(x.m, 100), BigShift(<<1>>, 0 - x.e)))

-----------------------------------------------------------------------------
(* Amounts of money *)

\* A float that holds a price is the decimal it was read from: [m, k] stands
\* for m / 10^k, with k >= 2 and no zero at the end of m beyond the cents, so
\* that equal floats are equal records (decimals of at most 15 digits are
\* different floats).  m is an Int: amounts have at most 9 digits.
RECURSIVE Amount(_, _)
Amount(m, k) ==
    IF k > 2 /\ m % 10 = 0 THEN Amount(m \div 10, k - 1) ELSE [m |-> m, k |-> k]

\* the amount of c cents
Cents(c) == [m |-> c, k |-> 2]

\* |a| in units of 10^-k, for k >= a.k
AmountUnits(a, k) == BigMul(BigOfInt(Abs(a.m)), BigPow(10, k - a.k))

\* a < b
AmountLess(a, b) ==
    IF a.k = b.k THEN a.m < b.m
    ELSE IF (a.m < 0) # (b.m < 0) THEN a.m < 0
    ELSE IF a.m < 0
         THEN BigLess(AmountUnits(b, a.k + b.k), AmountUnits(a, a.k + b.k))
    ELSE BigLess(AmountUnits(a, a.k + b.k), AmountUnits(b, a.k + b.k))

\* the float of an amount
FloatOfAmount(a) == FloatOfDecimal(a.m, a.k)

\* round(a, 2) in cents
AmountRound2(a) == IF a.k = 2 THEN a.m ELSE FloatRound2(FloatOfAmount(a))

\* Python truthiness of an Optional amount
TruthyAmount(o) == o # <<>> /\ o[1].m # 0

-----------------------------------------------------------------------------
(* models.py: SearchQuery *)

\* The attributes _build_params reads that the dataclass does not declare.
a_num_results == <<110, 117, 109, 95, 114, 101, 115, 117, 108, 116, 115>>
a_time_period == <<116, 105, 109, 101, 95, 112, 101, 114, 105, 111, 100>>
a_condition == <<99, 111, 110, 100, 105, 116, 105, 111, 110>>
a_free_shipping == <<102, 114, 101, 101, 95, 115, 104, 105, 112, 112, 105, 110, 103>>
a_local_sellers == <<108, 111, 99, 97, 108, 95, 115, 101, 108, 108, 101, 114, 115>>
UndeclaredAttrs == <<a_num_results, a_time_period, a_condition, a_free_shipping,
                     a_local_sellers>>

\* SearchQuery(keyword, category_id, min_price, max_price, on_sale, priority), the
\* other declared fields at their defaults.  extra is the set of undeclared
\* attributes somebody attached to the object (the constructor attaches none);
\* an attached attribute holds None.
SearchQuery(keyword, category_id, category_name, max_price, on_sale, priority) ==
    [keyword |-> keyword, category_id |-> category_id,
     category_name |-> category_name, priority |-> priority,
     min_price |-> None, max_price |-> max_price, on_sale |-> on_sale,
     sort_by |-> None, extra |-> {}]

-----------------------------------------------------------------------------
(* agent.py: the merge step of gather_search_queries (lines 120-130) *)

\* sorted(..., reverse=True) is stable: an element goes after every element whose
\* priority is >= its own.
RECURSIVE InsertByPriority(_, _)
InsertByPriority(q, sorted) ==
    IF sorted = <<>> THEN <<q>>
    ELSE IF Head(sorted).priority >= q.priority
         THEN <<Head(sorted)>> \o InsertByPriority(q, Tail(sorted))
         ELSE <<q>> \o sorted

RECURSIVE SortedByPriorityDesc(_)
\* sorted(queries, key=lambda x: x.priority, reverse=True)
SortedByPriorityDesc(qs) ==
    IF qs = <<>> THEN <<>>
    ELSE InsertByPriority(qs[Len(qs)], SortedByPriorityDesc(SubSeq(qs, 1, Len(qs) - 1)))

\* keyword_lower = q.keyword.lower()
KeywordLowerBug(q) == q.keyword
KeywordLower(q) == Lower(q.keyword)

RECURSIVE Deduplicate(_, _)
\* the for loop of lines 123-127: seen is seen_keywords
Deduplicate(qs, seen) ==
    IF qs = <<>> THEN <<>>
    ELSE IF KeywordLower(Head(qs)) \notin seen
         THEN <<Head(qs)>> \o Deduplicate(Tail(qs), seen \cup {KeywordLower(Head(qs))})
         ELSE Deduplicate(Tail(qs), seen)

\* a merge that forgets reverse=True
MergeQueriesAscending(qs) ==
    LET s == SortedByPriorityDesc(qs)
    IN  Deduplicate([i \in 1..Len(s) |-> s[Len(s) + 1 - i]], {})
\* lines 120-130
MergeQueries(qs) == Deduplicate(SortedByPriorityDesc(qs), {})

-----------------------------------------------------------------------------
(* supabase_client.py: the two query sources *)

\* Python truthiness of an Optional str / Optional number
TruthyStr(o) == ~IsNone(o) /\ Val(o) # <<>>
TruthyNum(o) == ~IsNone(o) /\ Val(o) # 0

\* A joined row of categories or tags as the select of line 42 returns it: a
\* dict with the key name, whose value may be null.
Joined(name) == [name |-> name]

\* alert.get('categories') and alert['categories'].get('name'): the joined row
\* is there (a dict with a key is truthy) and its name is truthy
TruthyJoinedName(joined) == ~IsNone(joined) /\ TruthyStr(Val(joined).name)

\* lines 49-58: the parts of one alert's keyword.  categories and tags are the
\* joined rows (None when the join is empty).
KeywordParts(alert) ==
    (IF TruthyStr(alert.name) THEN <<Val(alert.name)>> ELSE <<>>)
    \o (IF TruthyJoinedName(alert.categories)
        THEN <<Val(Val(alert.categories).name)>> ELSE <<>>)
    \o (IF TruthyJoinedName(alert.tags) THEN <<Val(Val(alert.tags).name)>> ELSE <<>>)

\* lines 60-69: the query of one alert that has keyword parts
AlertQuery(alert) ==
    SearchQuery(JoinSpace(KeywordParts(alert)), alert.category_id,
                IF ~IsNone(alert.categories) THEN Val(alert.categories).name ELSE None,
                IF TruthyNum(alert.max_price) THEN alert.max_price ELSE None,
                TRUE, 1)

RECURSIVE AlertQueries(_)
\* lines 46-71: the loop over response.data
AlertQueries(rows) ==
    IF rows = <<>> THEN <<>>
    ELSE (IF KeywordParts(Head(rows)) # <<>> THEN <<AlertQuery(Head(rows))>> ELSE <<>>)
         \o AlertQueries(Tail(rows))

\* get_active_deal_alerts: self.client raises when connect() was never called, the
\* read may fail (read_ok = FALSE); either way the except returns [].
GetActiveDealAlerts(connected, read_ok, rows) ==
    IF connected /\ read_ok THEN AlertQueries(rows) ELSE <<>>

RECURSIVE Split(_, _)
\* str.split(): cur is the word being read
Split(s, cur) ==
    IF s = <<>> THEN (IF cur = <<>> THEN <<>> ELSE <<cur>>)
    ELSE IF IsSpace(Head(s))
         THEN (IF cur = <<>> THEN <<>> ELSE <<cur>>) \o Split(Tail(s), <<>>)
         ELSE Split(Tail(s), Append(cur, Head(s)))

StripChars == {46, 44, 33, 63, 40, 41, 91, 93, 123, 125}   \* '.,!?()[]{}'

RECURSIVE LStrip(_)
LStrip(s) == IF s # <<>> /\ Head(s) \in StripChars THEN LStrip(Tail(s)) ELSE s

RECURSIVE RStrip(_)
RStrip(s) ==
    IF s # <<>> /\ s[Len(s)] \in StripChars THEN RStrip(SubSeq(s, 1, Len(s) - 1)) ELSE s

\* word.strip('.,!?()[]{}').lower()
CleanWord(word) == Lower(RStrip(LStrip(word)))

\* line 96
StopWords ==
    {<<118, 101>>, <<105, 108, 101>>, <<105, 231, 105, 110>>, <<116, 104, 101>>,
     <<97>>, <<97, 110>>, <<105, 110>>, <<111, 110>>, <<97, 116>>, <<116, 111>>,
     <<102, 111, 114>>}

\* lines 102-105 for the words of one title
WordKeywords(words) ==
    {w \in {CleanWord(words[i]) : i \in 1..Len(words)} : Len(w) > 3 /\ w \notin StopWords}

\* lines 99-105 for one title
TitleKeywords(title) == WordKeywords(Split(title, <<>>))

\* lines 95-105: the set keywords, over the (at most limit * 2) rows read
KeywordSet(titles, limit) ==
    UNION {TitleKeywords(titles[i]) : i \in 1..Len(Take(titles, limit * 2))}

\* the orders list(a_set) can produce
Orderings(S) ==
    {f \in [1..Cardinality(S) -> S] : \A i, j \in 1..Cardinality(S) : i # j => f[i] # f[j]}

\* get_trending_keywords: every value list(keywords)[:limit] can take; [] when
\* the client is not connected or the read fails.
GetTrendingKeywords(connected, read_ok, titles, limit) ==
    IF connected /\ read_ok
    THEN {Take(o, limit) : o \in Orderings(KeywordSet(titles, limit))}
    ELSE {<<>>}

-----------------------------------------------------------------------------
(* models.py: ShoppingProduct *)

\* a has_discount that does not look at the tag
HasDiscountNoTag(p) ==
    \/ (~IsNone(p.discount_percentage) /\ Val(p.discount_percentage) > 0)
    \/ (~IsNone(p.original_price) /\ AmountLess(p.price, Val(p.original_price)))
\* lines 42-51
HasDiscount(p) ==
    \/ (~IsNone(p.discount_percentage) /\ Val(p.discount_percentage) > 0)
    \/ (~IsNone(p.original_price) /\ AmountLess(p.price, Val(p.original_price)))
    \/ ~IsNone(p.discount_tag)

\* round(n / d, 0) for n >= 0, d > 0, ties to even
RoundDiv(n, d) ==
    LET q == n \div d
        r == n % d
    IN  IF 2 * r < d THEN q
        ELSE IF 2 * r > d THEN q + 1
        ELSE IF q % 2 = 0 THEN q ELSE q + 1

\* line 59 as the floats compute it: round(((original - price) / original) * 100, 2),
\* in hundredths, for original # 0
ComputedPercentFloat(original, price) ==
    The({FloatRound2(x) :
            x \in {FloatMulInt(q, 100) :
                     q \in {FloatDiv(d, FloatOfAmount(original)) :
                              d \in {FloatSub(FloatOfAmount(original),
                                              FloatOfAmount(price))}}}})

\* the exact quotient (original - price) / original * 10000 lies halfway
\* between two integers, for amounts in cents with original > 0
PercentAtTie(original, price) ==
    2 * (((original.m - price.m) * 10000) % original.m) = original.m

\* line 59.  For 0 <= price < original <= 2000.00 in whole cents the three
\* float operations err by less than 10^-11 hundredths, and an exact quotient
\* that is not at a tie lies at least 1 / 400000 from one: it rounds as the
\* float does.  At a tie, and for every other amount, the floats decide.
ComputedPercent(original, price) ==
    IF /\ original.k = 2 /\ price.k = 2
       /\ price.m >= 0 /\ price.m < original.m /\ original.m <= 200000
       /\ ~PercentAtTie(original, price)
    THEN RoundDiv((original.m - price.m) * 10000, original.m)
    ELSE ComputedPercentFloat(original, price)

RECURSIVE DigitsValue(_, _)
\* int(digits): acc is the value read so far
DigitsValue(s, acc) ==
    IF s = <<>> THEN acc ELSE DigitsValue(Tail(s), acc * 10 + DigitValue(Head(s)))

RECURSIVE DigitRunEnd(_, _)
\* the last index of the run of digits that starts at i
DigitRunEnd(s, i) ==
    IF i < Len(s) /\ IsDigit(s[i + 1]) THEN DigitRunEnd(s, i + 1) ELSE i

RECURSIVE PercentMatch(_, _)
\* the run of digits s[i..j]: the match if a '%' follows it, else search on
PercentMatchRun(s, i, j) ==
    IF j < Len(s) /\ s[j + 1] = 37 THEN Some(SubSeq(s, i, j)) ELSE PercentMatch(s, j + 1)

\* re.search(r'(\d+)%', s) from index i on: group(1), or None
PercentMatch(s, i) ==
    IF i > Len(s) THEN None
    ELSE IF IsDigit(s[i]) THEN PercentMatchRun(s, i, DigitRunEnd(s, i))
    ELSE PercentMatch(s, i + 1)

\* line 66: float(match.group(1)) in hundredths, None without a match
MatchPercent(m) == IF IsNone(m) THEN None ELSE Some(DigitsValue(Val(m), 0) * 100)

\* lines 62-66
TagPercent(tag) == MatchPercent(PercentMatch(tag, 1))

\* a resolution that consults the tag before the prices
CalculateTagFirst(p) ==
    IF TruthyNum(p.discount_percentage) THEN p.discount_percentage
    ELSE IF TruthyStr(p.discount_tag) /\ ~IsNone(TagPercent(Val(p.discount_tag)))
         THEN TagPercent(Val(p.discount_tag))
    ELSE IF TruthyAmount(p.original_price) /\ AmountLess(p.price, Val(p.original_price))
         THEN Some(ComputedPercent(Val(p.original_price), p.price))
    ELSE None
\* lines 53-68
CalculateDiscountPercentage(p) ==
    IF TruthyNum(p.discount_percentage) THEN p.discount_percentage
    ELSE IF TruthyAmount(p.original_price) /\ AmountLess(p.price, Val(p.original_price))
         THEN Some(ComputedPercent(Val(p.original_price), p.price))
    ELSE IF TruthyStr(p.discount_tag) THEN TagPercent(Val(p.discount_tag))
    ELSE None

-----------------------------------------------------------------------------
(* serp_api_client.py: _parse_product *)

\* the elements of s at the indices idxs
Pick(s, idxs) == [i \in 1..Len(idxs) |-> s[idxs[i]]]

\* price_str.replace(',', '')
RemoveCommas(s) == Pick(s, SelectIdx([i \in 1..Len(s) |-> s[i] # 44], 1))

RECURSIVE FirstDigit(_, _)
\* the index of the first digit of s at or after i, 0 when there is none
FirstDigit(s, i) ==
    IF i > Len(s) THEN 0 ELSE IF IsDigit(s[i]) THEN i ELSE FirstDigit(s, i + 1)

\* float(whole.frac) for two runs of digits: every digit counts
FloatOfDigits(whole, frac) ==
    IF Len(frac) >= 2 THEN Amount(DigitsValue(whole \o frac, 0), Len(frac))
    ELSE Cents(DigitsValue(whole \o frac \o [i \in 1..(2 - Len(frac)) |-> 48], 0))

\* float(text), text matching \d+\.?\d* with its dot at index dot (0: no dot)
FloatOfText(text, dot) ==
    IF dot = 0 THEN FloatOfDigits(text, <<>>)
    ELSE FloatOfDigits(SubSeq(text, 1, dot - 1), SubSeq(text, dot + 1, Len(text)))

\* the match of [\d,]+\.?\d* in s whose digits start at i and run to j
PriceMatchRun(s, i, j) ==
    IF j < Len(s) /\ s[j + 1] = 46
    THEN FloatOfText(SubSeq(s, i, IF j + 1 < Len(s) /\ IsDigit(s[j + 2])
                                  THEN DigitRunEnd(s, j + 2) ELSE j + 1),
                     j + 2 - i)
    ELSE FloatOfText(SubSeq(s, i, j), 0)

\* re.search(r'[\d,]+\.?\d*', s) as a float, i the index of the first digit of s
PriceMatch(s, i) == IF i = 0 THEN None ELSE Some(PriceMatchRun(s, i, DigitRunEnd(s, i)))

\* the search of line 84 in s, the price string without its commas
PriceSearch(s) == PriceMatch(s, FirstDigit(s, 1))

\* lines 84-86
PriceFromString(price_str) == PriceSearch(RemoveCommas(price_str))

\* lines 78-86
ItemPrice(item) ==
    IF ~IsNone(item.extracted_price) THEN item.extracted_price
    ELSE IF TruthyStr(item.price) THEN PriceFromString(Val(item.price))
    ELSE None

\* sub in s
Contains(s, sub) ==
    \E i \in 1..(Len(s) - Len(sub) + 1) : SubSeq(s, i, i + Len(sub) - 1) = sub

\* line 115: "OFF" in str(ext).upper() or "%" in str(ext)
IsDiscountExtension(ext) == Contains(Upper(ext), <<79, 70, 70>>) \/ Contains(ext, <<37>>)

\* lines 114-117: the first extension that looks like a discount, hit being the
\* indices of those that do
FirstHit(exts, hit) == IF hit = <<>> THEN None ELSE Some(exts[hit[1]])

\* lines 110-117: the discount tag of an item
ItemDiscountTag(item) ==
    IF ~IsNone(item.tag) THEN item.tag
    ELSE IF ~IsNone(item.extensions) /\ Val(item.extensions) # <<>>
         THEN FirstHit(Val(item.extensions),
                       SelectIdx([i \in 1..Len(Val(item.extensions)) |->
                                     IsDiscountExtension(Val(item.extensions)[i])], 1))
    ELSE None

\* line 98: the default of item.get("source", "Unknown")
s_Unknown == <<85, 110, 107, 110, 111, 119, 110>>

\* lines 95-107 and 110-117: the product before line 120
NewProduct(item, price) ==
    [product_id |-> item.product_id,
     source |-> IF IsNone(item.source) THEN s_Unknown ELSE Val(item.source),
     price |-> price,
     original_price |-> item.extracted_old_price,
     discount_percentage |-> None,
     product_link |-> IF TruthyStr(item.product_link) THEN item.product_link ELSE item.link,
     discount_tag |-> ItemDiscountTag(item)]

\* line 120: product.discount_percentage = product.calculate_discount_percentage()
WithDiscountPercentage(product, percentage) ==
    [product EXCEPT !.discount_percentage = percentage]

\* lines 120-122
FillDiscount(product) ==
    WithDiscountPercentage(product, CalculateDiscountPercentage(product))

\* a parse that rejects only a negative price
ParseWithPriceZeroOk(item, price) ==
    IF IsNone(price) \/ Val(price).m < 0 THEN None
    ELSE Some(FillDiscount(NewProduct(item, Val(price))))
\* lines 88-122, price being the price resolved by lines 78-86
ParseWithPrice(item, price) ==
    IF IsNone(price) \/ Val(price).m <= 0 THEN None
    ELSE Some(FillDiscount(NewProduct(item, Val(price))))

\* line 78: item.get raises AttributeError on a raw item that is not a JSON
\* object (null, a string, a number, an array)
ParseRaises(item) == ~item.object

\* lines 74-126: None, or Some(product); an exception raised inside the try is
\* caught by lines 124-126, which return None
ParseProduct(item) ==
    IF ParseRaises(item) THEN None ELSE ParseWithPrice(item, ItemPrice(item))

\* the products among parsed, in order
Products(parsed) ==
    Pick([i \in 1..Len(parsed) |-> IF IsNone(parsed[i]) THEN None ELSE Val(parsed[i])],
         SelectIdx([i \in 1..Len(parsed) |-> ~IsNone(parsed[i])], 1))

RECURSIVE WellFormedPrefix(_)
\* the items before the first one whose parse raises
WellFormedPrefix(items) ==
    IF items = <<>> \/ ParseRaises(Head(items)) THEN <<>>
    ELSE <<Head(items)>> \o WellFormedPrefix(Tail(items))

\* a loop that an exception of one item's parse ends
ParseAllUntilFailure(items) ==
    Products([i \in 1..Len(WellFormedPrefix(items)) |->
                 ParseProduct(WellFormedPrefix(items)[i])])
\* lines 157-160 / 164-167: the products of one array of raw items, in order
ParseAll(items) == Products([i \in 1..Len(items) |-> ParseProduct(items[i])])

-----------------------------------------------------------------------------
(* serp_api_client.py: _build_params, search, search_with_discount_filter *)

\* config.py line 21
DefaultNumResults == 40

\* str(AttributeError): 'SearchQuery' object has no attribute '<name>'
AttributeErrorMessage(name) ==
    <<39, 83, 101, 97, 114, 99, 104, 81, 117, 101, 114, 121, 39, 32, 111, 98, 106,
      101, 99, 116, 32, 104, 97, 115, 32, 110, 111, 32, 97, 116, 116, 114, 105, 98,
      117, 116, 101, 32, 39>> \o name \o <<39>>

\* line 139: "Client not initialized. Use 'async with' context manager."
NotInitializedMessage ==
    <<67, 108, 105, 101, 110, 116, 32, 110, 111, 116, 32, 105, 110, 105, 116, 105,
      97, 108, 105, 122, 101, 100, 46, 32, 85, 115, 101, 32, 39, 97, 115, 121, 110,
      99, 32, 119, 105, 116, 104, 39, 32, 99, 111, 110, 116, 101, 120, 116, 32, 109,
      97, 110, 97, 103, 101, 114, 46>>

\* lines 30-72.  The attributes are read in the order of the source; reading one
\* the object does not have raises AttributeError.
BuildParams(query) ==
    IF \E i \in 1..Len(UndeclaredAttrs) : UndeclaredAttrs[i] \notin query.extra
    THEN [raised |-> TRUE,
          msg |-> AttributeErrorMessage(UndeclaredAttrs[
                      CHOOSE i \in 1..Len(UndeclaredAttrs) :
                          /\ UndeclaredAttrs[i] \notin query.extra
                          /\ \A j \in 1..(i - 1) : UndeclaredAttrs[j] \in query.extra]),
          params |-> None]
    ELSE [raised |-> FALSE, msg |-> <<>>,
          params |-> Some([q |-> query.keyword,
                           num |-> DefaultNumResults,
                           on_sale |-> query.on_sale,
                           min_price |-> query.min_price,
                           max_price |-> query.max_price,
                           sort_by |-> IF TruthyStr(query.sort_by)
                                       THEN query.sort_by ELSE None])]

\* serp_api_client.py lines 22-24: __aenter__ opens the connection
AEnter(client) == "open"

\* an __aexit__ that leaves the connection open
AExitLeaving(client) == client
\* serp_api_client.py lines 26-28: __aexit__ closes the connection if there is
\* one; self._client keeps the closed connection
AExit(client) == IF client = "none" THEN "none" ELSE "closed"

\* httpx, on a client that was closed: no request is sent
ClientClosedMessage ==
    <<67, 97, 110, 110, 111, 116, 32, 115, 101, 110, 100, 32, 97, 32, 114, 101, 113,
      117, 101, 115, 116, 44, 32, 97, 115, 32, 116, 104, 101, 32, 99, 108, 105, 101,
      110, 116, 32, 104, 97, 115, 32, 98, 101, 101, 110, 32, 99, 108, 111, 115, 101,
      100, 46>>

\* lines 138-146: search up to the await of line 146, where the coroutine is
\* suspended until the answer arrives; built is what _build_params did.  client
\* is "none" while self._client is None, "open" inside the async with, "closed"
\* after it.  In the result, params is the request that was sent, None when an
\* exception was raised before any request.
SearchSend(client, built) ==
    IF client = "none"
    THEN [raised |-> TRUE, msg |-> NotInitializedMessage, params |-> None,
          products |-> <<>>]
    ELSE IF built.raised
    THEN [raised |-> TRUE, msg |-> built.msg, params |-> None, products |-> <<>>]
    ELSE IF client = "closed"
    THEN [raised |-> TRUE, msg |-> ClientClosedMessage, params |-> None,
          products |-> <<>>]
    ELSE [raised |-> FALSE, msg |-> <<>>, params |-> built.params, products |-> <<>>]

\* lines 146-178: search from the answer to the request params.  response is
\* what the collaborator answers: [status, msg, shopping_results,
\* inline_shopping_results]; a status other than "ok" is a non-success HTTP
\* status, a timeout or a connection that was closed under the request, raised
\* with msg.
SearchReceive(params, response) ==
    IF response.status # "ok"
    THEN [raised |-> TRUE, msg |-> response.msg, params |-> params, products |-> <<>>]
    ELSE [raised |-> FALSE, msg |-> <<>>, params |-> params,
          products |-> ParseAll(response.shopping_results)
                       \o ParseAll(response.inline_shopping_results)]

\* lines 138-178 when nothing else runs while the request is pending
SearchBuilt(client, built, response) ==
    IF SearchSend(client, built).raised THEN SearchSend(client, built)
    ELSE SearchReceive(built.params, response)

\* lines 128-178
Search(client, query, response) == SearchBuilt(client, BuildParams(query), response)

\* a filter for which a threshold of 0 means "include all"
KeepAllAtZero(has_discount, discount, min) ==
    min = 0 \/ (has_discount /\ TruthyNum(discount) /\ Val(discount) >= min)
\* a filter with a strict threshold
KeepStrict(has_discount, discount, min) ==
    has_discount /\ TruthyNum(discount) /\ Val(discount) > min
\* lines 203-205, discount being product.calculate_discount_percentage()
Keep(has_discount, discount, min) ==
    has_discount /\ TruthyNum(discount) /\ Val(discount) >= min

\* lines 203-205: whether the filter keeps p
KeepProduct(p, min) == Keep(HasDiscount(p), CalculateDiscountPercentage(p), min)

\* a filter that prepends each kept product instead of appending it
DiscountedProductsReversed(products, min) ==
    [n \in 1..Len(SelectIdx([i \in 1..Len(products) |-> KeepProduct(products[i], min)], 1)) |->
        products[SelectIdx([i \in 1..Len(products) |-> KeepProduct(products[i], min)], 1)[
            Len(SelectIdx([i \in 1..Len(products) |-> KeepProduct(products[i], min)], 1)) + 1 - n]]]
\* lines 201-206
DiscountedProducts(products, min) ==
    Pick(products, SelectIdx([i \in 1..Len(products) |-> KeepProduct(products[i], min)], 1))

\* lines 200-213, found being what search did with q, the query after line 196
FilterFound(q, found, min) ==
    [raised |-> found.raised, msg |-> found.msg, params |-> found.params,
     query |-> q, products |-> found.products,
     discounted |-> IF found.raised THEN <<>>
                    ELSE DiscountedProducts(found.products, min)]

\* a filter that leaves the caller's on_sale as it is
ForceOnSaleUnlessSet(query) == query
\* line 196: query.on_sale = True
ForceOnSale(query) == [query EXCEPT !.on_sale = TRUE]

\* lines 196-198 and 138-146: search_with_discount_filter up to the await of
\* line 146, on the caller's query object as it is after line 196
FilterSend(client, q, min) == FilterFound(q, SearchSend(client, BuildParams(q)), min)

\* lines 146-213: search_with_discount_filter from the answer to the request
\* params, q being the caller's query object as it is then
FilterReceive(q, params, min, response) ==
    FilterFound(q, SearchReceive(params, response), min)

\* lines 180-213 when nothing else runs while the request is pending: query is
\* the caller's object after line 196; params is what was sent (None when no
\* request was made); products is what search returned.
SearchWithDiscountFilter(client, query, min, response) ==
    FilterFound(ForceOnSale(query), Search(client, ForceOnSale(query), response), min)

RECURSIVE DictSet(_, _, _)
\* d[key] = value on a dict kept as its entries [key, value] in insertion order
DictSet(d, key, value) ==
    IF d = <<>> THEN <<[key |-> key, value |-> value]>>
    ELSE IF Head(d).key = key THEN <<[key |-> key, value |-> value]>> \o Tail(d)
    ELSE <<Head(d)>> \o DictSet(Tail(d), key, value)

\* d[key], for a key d has
DictGet(d, key) == d[CHOOSE i \in 1..Len(d) : d[i].key = key].value

\* the keys of d
DictKeys(d) == {d[i].key : i \in 1..Len(d)}

\* a loop body without the except clause: the exception of a search leaves
\* search_multiple
MultipleStepUncaught(results, keyword, out) ==
    IF out.raised THEN [raised |-> TRUE, results |-> results]
    ELSE [raised |-> FALSE, results |-> DictSet(results, keyword, out.discounted)]
\* lines 233-238: the body of the loop for one query, out being what
\* search_with_discount_filter did; raised tells whether an exception leaves
\* search_multiple
MultipleStep(results, keyword, out) ==
    [raised |-> FALSE,
     results |-> DictSet(results, keyword, IF out.raised THEN <<>> ELSE out.discounted)]

-----------------------------------------------------------------------------
(* supabase_client.py: the tables deals and stores *)

\* The store's fields: alerts, the rows of deal_alerts; deals, the titles of
\* the approved rows of deals in the order get_trending_keywords reads them;
\* urls, the affiliate_url of every row of deals; stores, the rows of stores
\* (the id of a row is its position); inserted, the rows create_deal inserted
\* into deals (the id of a row is its position); app_rows, the rows the review
\* app's send_to_approval inserted into deals.  An app row has no affiliate_url
\* and is pending: check_deal_exists and get_trending_keywords do not see it.

RECURSIVE ILike(_, _)
\* value ILIKE pattern: '%' stands for any run of code points, '_' for any one
\* code point, any other code point for itself in either case.  (The patterns
\* built below hold no backslash, the escape character of LIKE.)
ILike(value, pattern) ==
    IF pattern = <<>> THEN value = <<>>
    ELSE IF Head(pattern) = 37
         THEN \/ ILike(value, Tail(pattern))
              \/ (value # <<>> /\ ILike(Tail(value), pattern))
    ELSE IF value = <<>> THEN FALSE
    ELSE IF Head(pattern) = 95 THEN ILike(Tail(value), Tail(pattern))
    ELSE /\ LowerChar(Head(value)) = LowerChar(Head(pattern))
         /\ ILike(Tail(value), Tail(pattern))

\* line 170: f'%{product_id}%', the product id not escaped
ExistsPattern(product_id) == <<37>> \o product_id \o <<37>>

\* supabase_client.py lines 166-178: ilike '%product_id%' on affiliate_url;
\* False when the client is not connected or the read fails
CheckDealExists(connected, read_ok, urls, product_id) ==
    /\ connected
    /\ read_ok
    /\ \E i \in 1..Len(urls) : ILike(urls[i], ExistsPattern(product_id))

RECURSIVE LStripSpace(_)
LStripSpace(s) == IF s # <<>> /\ IsSpace(Head(s)) THEN LStripSpace(Tail(s)) ELSE s

RECURSIVE RStripSpace(_)
RStripSpace(s) ==
    IF s # <<>> /\ IsSpace(s[Len(s)]) THEN RStripSpace(SubSeq(s, 1, Len(s) - 1)) ELSE s

\* line 125: store_name.strip()
StripSpace(s) == RStripSpace(LStripSpace(s))

\* low.replace(' ', '-').replace('.', '')
SlugOfLower(low) ==
    Pick([i \in 1..Len(low) |-> IF low[i] = 32 THEN 45 ELSE low[i]],
         SelectIdx([i \in 1..Len(low) |-> low[i] # 46], 1))

\* line 126: normalized_name.lower().replace(' ', '-').replace('.', '')
StoreSlug(name) == SlugOfLower(Lower(name))

\* lines 129-150 for the normalized name: the id and the rows of stores after
StoreByName(stores, name) ==
    IF \E i \in 1..Len(stores) : stores[i].name = name
    THEN [id |-> Some(CHOOSE i \in 1..Len(stores) :
                         /\ stores[i].name = name
                         /\ \A j \in 1..(i - 1) : stores[j].name # name),
          stores |-> stores]
    ELSE [id |-> Some(Len(stores) + 1),
          stores |-> Append(stores, [name |-> name, slug |-> StoreSlug(name),
                                     is_active |-> TRUE])]

\* lines 113-154: None when the client is not connected or the store fails
GetOrCreateStore(connected, store_ok, stores, store_name) ==
    IF connected /\ store_ok THEN StoreByName(stores, StripSpace(store_name))
    ELSE [id |-> None, stores |-> stores]

\* lines 180-213: the id of the inserted row, None when the client is not
\* connected or the insert fails, and the rows inserted and the urls after
CreateDeal(connected, insert_ok, st, deal) ==
    IF connected /\ insert_ok
    THEN [id |-> Some(Len(st.inserted) + 1),
          store |-> [st EXCEPT !.inserted = Append(@, deal),
                               !.urls = Append(@, deal.affiliate_url)]]
    ELSE [id |-> None, store |-> st]

-----------------------------------------------------------------------------
(* models.py: DealToCreate;  agent.py: _product_to_deal *)

\* models.py lines 19-40: a ShoppingProduct with the fields the model keeps
ShoppingProduct(product_id, source, price, original_price, discount_percentage, product_link, discount_tag) ==
    [product_id |-> product_id, source |-> source, price |-> price,
     original_price |-> original_price, discount_percentage |-> discount_percentage,
     product_link |-> product_link, discount_tag |-> discount_tag]

\* models.py line 25: the default currency, "USD"
s_USD == <<85, 83, 68>>

\* str(ZeroDivisionError): "float division by zero"
ZeroDivisionMessage ==
    <<102, 108, 111, 97, 116, 32, 100, 105, 118, 105, 115, 105, 111, 110, 32, 98,
      121, 32, 122, 101, 114, 111>>

\* agent.py lines 58 and 80 as the floats compute them:
\* round(price / (1 - percentage / 100), 2) in cents, for a percentage # 100
EstimateFloat(price, percentage) ==
    The({FloatRound2(x) :
            x \in {FloatDiv(FloatOfAmount(price), d) :
                     d \in {FloatSub(FloatOne, q) :
                              q \in {FloatDivInt(p, 100) :
                                       p \in {FloatOfDecimal(percentage, 2)}}}}})

\* the exact quotient price / (1 - percentage / 100) lies halfway between two
\* cents, for a price in cents and a percentage below 100
EstimateAtTie(price, percentage) ==
    2 * ((price.m * 10000) % (10000 - percentage)) = 10000 - percentage

\* agent.py lines 58 and 80.  For a price of at most 2000.00 in whole cents
\* and a percentage below 100 with price / (100 - percentage) < 5000, the
\* float operations err by less than half of what separates an exact
\* quotient that is not at a tie from one: it rounds as the float does.  At
\* a tie, and for every other price and percentage, the floats decide.
Estimate(price, percentage) ==
    IF /\ price.k = 2 /\ price.m > 0 /\ price.m <= 200000
       /\ percentage > 0 /\ percentage < 10000
       /\ price.m \div (10000 - percentage) < 4999
       /\ ~EstimateAtTie(price, percentage)
    THEN RoundDiv(price.m * 10000, 10000 - percentage)
    ELSE EstimateFloat(price, percentage)

\* agent.py lines 55-60 and 80: round(original_price, 2) in cents; line 58
\* divides by zero at 100 percent (1 - 100.0 / 100 is 0.0)
EstimatedOriginal(product) ==
    IF TruthyAmount(product.original_price)
    THEN [raised |-> FALSE, value |-> AmountRound2(Val(product.original_price))]
    ELSE IF TruthyNum(product.discount_percentage)
    THEN IF Val(product.discount_percentage) = 10000
         THEN [raised |-> TRUE, value |-> 0]
         ELSE [raised |-> FALSE,
               value |-> Estimate(product.price, Val(product.discount_percentage))]
    ELSE [raised |-> FALSE, value |-> AmountRound2(product.price)]

\* x or 0
OrZero(o) == IF TruthyNum(o) THEN Val(o) ELSE 0

\* x or ""
OrEmpty(o) == IF TruthyStr(o) THEN Val(o) ELSE <<>>

\* streamlit_app.py lines 289-304: the row send_to_approval builds for a
\* product, with the fields the model keeps; price and original_price as the
\* product has them, url possibly None
ApprovalRow(product) ==
    [price |-> product.price, original_price |-> product.original_price,
     discount_percentage |-> CalculateDiscountPercentage(product),
     url |-> product.product_link, store_name |-> product.source,
     status |-> "pending", external_id |-> product.product_id]

\* lines 285-312: the rows of deals after the loop and the count returned,
\* inserted being the indices of the products whose insert returned data (the
\* exception of any other is caught and shown as a warning)
ApprovalLoop(rows, selected, inserted) ==
    [count |-> Len(inserted),
     rows |-> rows \o [n \in 1..Len(inserted) |-> ApprovalRow(selected[inserted[n]])]]

\* streamlit_app.py lines 276-314: send_to_approval(selected) with the app's
\* store client set or not; insert_ok tells for each product whether its insert
\* returns data.  No product is skipped: not one without a link, not one the
\* store holds a deal for.
ApprovalSent(client, rows, selected, insert_ok) ==
    IF ~client THEN [count |-> 0, rows |-> rows]
    ELSE ApprovalLoop(rows, selected, SelectIdx(insert_ok, 1))

\* models.py lines 91-109
DealToCreate(original_price, discounted_price, discount_percentage, currency, affiliate_url, category_id, store_id, posted_by, status) ==
    [original_price |-> original_price, discounted_price |-> discounted_price,
     discount_percentage |-> discount_percentage, currency |-> currency,
     affiliate_url |-> affiliate_url, category_id |-> category_id,
     store_id |-> store_id, posted_by |-> posted_by, status |-> status]

\* a conversion that stages the deal as approved
ProductToDealApproved(product, category_id, store_id) ==
    IF EstimatedOriginal(product).raised
    THEN [raised |-> TRUE, msg |-> ZeroDivisionMessage, deal |-> None]
    ELSE [raised |-> FALSE, msg |-> <<>>,
          deal |-> Some(DealToCreate(EstimatedOriginal(product).value,
                                     AmountRound2(product.price),
                                     OrZero(CalculateDiscountPercentage(product)),
                                     s_USD, OrEmpty(product.product_link),
                                     category_id, store_id, None, "approved"))]
\* agent.py lines 35-90: the DealToCreate in deal, or the exception raised
ProductToDeal(product, category_id, store_id) ==
    IF EstimatedOriginal(product).raised
    THEN [raised |-> TRUE, msg |-> ZeroDivisionMessage, deal |-> None]
    ELSE [raised |-> FALSE, msg |-> <<>>,
          deal |-> Some(DealToCreate(EstimatedOriginal(product).value,
                                     AmountRound2(product.price),
                                     OrZero(CalculateDiscountPercentage(product)),
                                     s_USD, OrEmpty(product.product_link),
                                     category_id, store_id, None, "pending"))]

-----------------------------------------------------------------------------
(* config.py: load_config;  agent.py: __init__ *)

\* config.py line 40: min_discount_percentage, 10.0 percent
DefaultMinDiscount == 1000

\* config.py lines 8-40: an AgentConfig with the fields the model keeps
AgentConfig(api_key, url, anon_key, service_role_key) ==
    [serp_api |-> [api_key |-> api_key, default_num_results |-> DefaultNumResults],
     supabase |-> [url |-> url, anon_key |-> anon_key,
                   service_role_key |-> service_role_key],
     min_discount_percentage |-> DefaultMinDiscount]

\* config.py line 47: "SERP_API_KEY environment variable is required"
SerpKeyRequiredMessage ==
    <<83, 69, 82, 80, 95, 65, 80, 73, 95, 75, 69, 89, 32, 101, 110, 118, 105,
      114, 111, 110, 109, 101, 110, 116, 32, 118, 97, 114, 105, 97, 98, 108,
      101, 32, 105, 115, 32, 114, 101, 113, 117, 105, 114, 101, 100>>

\* config.py line 54: "SUPABASE_URL and SUPABASE_ANON_KEY environment variables
\* are required"
SupabaseRequiredMessage ==
    <<83, 85, 80, 65, 66, 65, 83, 69, 95, 85, 82, 76, 32, 97, 110, 100, 32, 83,
      85, 80, 65, 66, 65, 83, 69, 95, 65, 78, 79, 78, 95, 75, 69, 89, 32, 101,
      110, 118, 105, 114, 111, 110, 109, 101, 110, 116, 32, 118, 97, 114, 105,
      97, 98, 108, 101, 115, 32, 97, 114, 101, 32, 114, 101, 113, 117, 105, 114,
      101, 100>>

\* a load_config that falls back to the service role key for the anon key
LoadConfigFallback(env) ==
    IF ~TruthyStr(env.SERP_API_KEY)
    THEN [raised |-> TRUE, msg |-> SerpKeyRequiredMessage, config |-> None]
    ELSE IF ~TruthyStr(env.SUPABASE_URL)
            \/ (~TruthyStr(env.SUPABASE_ANON_KEY)
                /\ ~TruthyStr(env.SUPABASE_SERVICE_ROLE_KEY))
    THEN [raised |-> TRUE, msg |-> SupabaseRequiredMessage, config |-> None]
    ELSE [raised |-> FALSE, msg |-> <<>>,
          config |-> Some(AgentConfig(Val(env.SERP_API_KEY), Val(env.SUPABASE_URL),
                                      IF TruthyStr(env.SUPABASE_ANON_KEY)
                                      THEN Val(env.SUPABASE_ANON_KEY)
                                      ELSE Val(env.SUPABASE_SERVICE_ROLE_KEY),
                                      env.SUPABASE_SERVICE_ROLE_KEY))]
\* config.py lines 43-63.  env maps each variable to None (not set) or Some(text).
LoadConfig(env) ==
    IF ~TruthyStr(env.SERP_API_KEY)
    THEN [raised |-> TRUE, msg |-> SerpKeyRequiredMessage, config |-> None]
    ELSE IF ~TruthyStr(env.SUPABASE_URL) \/ ~TruthyStr(env.SUPABASE_ANON_KEY)
    THEN [raised |-> TRUE, msg |-> SupabaseRequiredMessage, config |-> None]
    ELSE [raised |-> FALSE, msg |-> <<>>,
          config |-> Some(AgentConfig(Val(env.SERP_API_KEY), Val(env.SUPABASE_URL),
                                      Val(env.SUPABASE_ANON_KEY),
                                      env.SUPABASE_SERVICE_ROLE_KEY))]

\* agent.py lines 30-33: self.config = config or load_config(); an AgentConfig
\* is always truthy
NewAgent(config, env) ==
    IF IsNone(config) THEN LoadConfig(env)
    ELSE [raised |-> FALSE, msg |-> <<>>, config |-> config]

-----------------------------------------------------------------------------
(* agent.py: gather_search_queries *)

\* lines 104-105: q.priority = 10
AlertPriority == 10
\* line 116
TrendingPriority == 5
\* line 111: get_trending_keywords(limit=10)
TrendingLimit == 10

\* lines 104-105 without the assignment: the store layer's priority is kept
ForcePriorityBug(qs) == qs
ForcePriority(qs) == [i \in 1..Len(qs) |-> [qs[i] EXCEPT !.priority = AlertPriority]]

\* lines 112-117
TrendingQueries(kws) ==
    [i \in 1..Len(kws) |-> SearchQuery(kws[i], None, None, None, TRUE, TrendingPriority)]


-----------------------------------------------------------------------------
(* Specification SpecMerge: the merge step on arbitrary query lists *)

k_shoes == <<115, 104, 111, 101, 115>>   \* "shoes"
k_Shoes == <<83, 104, 111, 101, 115>>    \* "Shoes"
k_bag == <<98, 97, 103>>                 \* "bag"
k_SISE == <<350, 304, 350, 69>>          \* "ŞİŞE"
k_sise == <<351, 105, 775, 351, 101>>    \* "şi̇şe", 'i' followed by U+0307

MaxMerge == 3
MergeKeywords == {k_shoes, k_Shoes, k_bag, k_SISE, k_sise}
MergePriorities == {1, 5, 10}
MergeQuerySet ==
    {SearchQuery(k, None, None, None, TRUE, p) : k \in MergeKeywords, p \in MergePriorities}
SeqsUpTo(S, n) == UNION {[1..k -> S] : k \in 0..n}

AgentIdle ==
    /\ store = [alerts |-> <<>>, deals |-> <<>>, urls |-> <<>>, stores |-> <<>>,
                inserted |-> <<>>, app_rows |-> <<>>]
    /\ supabase_connected = FALSE
    /\ serp_client = "none"
    /\ pc = "idle"
    /\ max_queries = 0
    /\ min_discount = 0
    /\ deal_alert_queries = <<>>
    /\ trending = <<>>
    /\ unique_queries = <<>>
    /\ queries = <<>>
    /\ idx = 1
    /\ result = <<>>
    /\ result_at_start = <<>>
    /\ attempted = <<>>
    /\ outcomes = <<>>
    /\ events = <<>>
    /\ runs = 0

FilterIdle ==
    /\ f_pc = "idle"
    /\ f_client = "none"
    /\ f_query = None
    /\ f_input = None
    /\ f_min_discount = 0
    /\ f_response = None
    /\ f_out = None

MergeIdle ==
    /\ m_pc = "idle"
    /\ m_in = <<>>
    /\ m_out = <<>>

MultipleIdle ==
    /\ b_pc = "idle"
    /\ b_client = "none"
    /\ b_queries = <<>>
    /\ b_input = <<>>
    /\ b_min_discount = 0
    /\ b_idx = 1
    /\ b_results = <<>>
    /\ b_outs = <<>>

ProductIdle ==
    /\ pr_pc = "idle"
    /\ pr_product = None
    /\ pr_has_discount = FALSE
    /\ pr_effective = None
    /\ pr_deal = None

ProcessIdle ==
    /\ p_pc = "idle"
    /\ p_products = <<>>
    /\ p_idx = 1
    /\ p_deals_created = 0
    /\ p_log = <<>>
    /\ p_failures = <<>>

ParseIdle ==
    /\ ps_pc = "idle"
    /\ ps_item = None
    /\ ps_out = None

ConfigIdle ==
    /\ cfg_pc = "idle"
    /\ cfg_env = <<>>
    /\ cfg_config = None
    /\ cfg_out = None

AppIdle ==
    /\ a_pc = "idle"
    /\ a_client = FALSE
    /\ a_count = 0

InitMerge ==
    /\ AgentIdle
    /\ FilterIdle
    /\ MultipleIdle
    /\ ProductIdle
    /\ ProcessIdle
    /\ ParseIdle
    /\ m_pc = "input"
    /\ m_in \in SeqsUpTo(MergeQuerySet, MaxMerge)
    /\ m_out = <<>>
    /\ ConfigIdle
    /\ AppIdle

\* the merge step applied to m_in
DoMerge ==
    /\ m_pc = "input"
    /\ m_out' = MergeQueries(m_in)
    /\ m_pc' = "merged"
    /\ UNCHANGED <<m_in, agent_vars, filter_vars, multiple_vars, product_vars, process_vars, parse_vars,
                   config_vars, app_vars>>

NextMerge == DoMerge
SpecMerge == InitMerge /\ [][NextMerge]_vars

-----------------------------------------------------------------------------
(* Specification SpecFilter: search_with_discount_filter on one query *)

\* a raw result item; a key the payload lacks is None
Item(product_id, extracted_price, price, extracted_old_price, tag, extensions, link) ==
    [product_id |-> product_id, extracted_price |-> extracted_price, price |-> price,
     extracted_old_price |-> extracted_old_price, tag |-> tag,
     extensions |-> extensions, product_link |-> None, link |-> link,
     source |-> None, object |-> TRUE]

s_51off == <<53, 49, 37, 32, 79, 70, 70>>                    \* "51% OFF"
s_50arabic == <<1637, 1632, 37>>                             \* "٥٠%"
s_sale == <<83, 65, 76, 69>>                                 \* "SALE"
s_0off == <<48, 37, 32, 79, 70, 70>>                         \* "0% OFF"
s_10off == <<49, 48, 37, 32, 111, 102, 102>>                 \* "10% off"
s_delivery == <<70, 114, 101, 101, 32, 100, 101, 108, 105, 118, 101, 114, 121>>
s_price == <<36, 49, 44, 50, 51, 52, 46, 53, 54>>            \* "$1,234.56"
s_link == <<104, 116, 116, 112, 115, 58, 47, 47, 120, 47, 112>>   \* "https://x/p"
s_http500 == <<53, 48, 48, 32, 83, 101, 114, 118, 101, 114, 32, 69, 114, 114, 111, 114>>
s_timeout == <<116, 105, 109, 101, 100, 32, 111, 117, 116>>  \* "timed out"

i_plain == Item(<<49>>, Some(Cents(5000)), None, None, None, None, Some(s_link))
i_old10 == Item(<<50>>, Some(Cents(9000)), None, Some(Cents(10000)), None, None, Some(s_link))
i_tag51 == Item(<<52>>, Some(Cents(4900)), None, None, Some(s_51off), None, Some(s_link))
i_tagsale == Item(<<53>>, Some(Cents(3000)), None, None, Some(s_sale), None, Some(s_link))
i_tag0 == Item(<<54>>, Some(Cents(2000)), None, None, Some(s_0off), None, Some(s_link))
i_noprice == Item(<<55>>, None, None, Some(Cents(10000)), Some(s_51off), None, Some(s_link))
i_string == Item(<<56>>, None, Some(s_price), None, None,
                 Some(<<s_delivery, s_10off>>), Some(s_link))

\* a raw item that is the JSON value null
i_null == [Item(<<>>, None, None, None, None, None, None) EXCEPT !.object = FALSE]

ShoppingItems ==
    {i_plain, i_old10, i_tagsale, i_tag0, i_string, i_null}
InlineItems == {i_old10, i_noprice}
MaxItems == 2
MaxInline == 1

\* what the external search collaborator can answer
Responses ==
    {[status |-> "ok", msg |-> <<>>, shopping_results |-> a,
      inline_shopping_results |-> b] :
        a \in SeqsUpTo(ShoppingItems, MaxItems), b \in SeqsUpTo(InlineItems, MaxInline)}
    \cup {[status |-> "http_error", msg |-> s_http500, shopping_results |-> <<>>,
           inline_shopping_results |-> <<>>],
          [status |-> "timeout", msg |-> s_timeout, shopping_results |-> <<>>,
           inline_shopping_results |-> <<>>]}

NoResponse ==
    [status |-> "unasked", msg |-> <<>>, shopping_results |-> <<>>,
     inline_shopping_results |-> <<>>]

AllUndeclared == {UndeclaredAttrs[i] : i \in 1..Len(UndeclaredAttrs)}

\* the queries a caller passes: as the dataclass builds them, or with the
\* undeclared attributes attached
FilterQueries ==
    {[SearchQuery(k_Shoes, None, None, None, s, 0) EXCEPT !.extra = e] :
        s \in BOOLEAN, e \in {{}, AllUndeclared}}

\* 0, 10.0 and 10.01 percent
FilterThresholds == {0, 1000, 1001}

InitFilter ==
    /\ AgentIdle
    /\ MergeIdle
    /\ MultipleIdle
    /\ ProductIdle
    /\ ProcessIdle
    /\ ParseIdle
    /\ f_pc = "input"
    /\ f_client \in {"none", "open", "closed"}
    /\ f_query \in FilterQueries
    /\ f_input = f_query
    /\ f_min_discount \in FilterThresholds
    /\ f_response = NoResponse
    /\ f_out = FilterSend("none", f_query, f_min_discount)
    /\ ConfigIdle
    /\ AppIdle

\* search_with_discount_filter(f_query, f_min_discount) is called and runs to
\* the await of line 146, or to the exception raised before it; f_query is the
\* caller's query object and f_out the frame of the call
CallFilter ==
    /\ f_pc = "input"
    /\ f_query' = ForceOnSale(f_query)
    /\ f_out' = FilterSend(f_client, f_query', f_min_discount)
    /\ f_pc' = (IF f_out'.raised THEN "raised" ELSE "awaiting")
    /\ UNCHANGED <<f_client, f_input, f_min_discount, f_response, agent_vars,
                   merge_vars, multiple_vars, product_vars, process_vars, parse_vars,
                   config_vars, app_vars>>

\* the answer r arrives and the call runs to its end
ResumeWith(r) ==
    /\ f_pc = "awaiting"
    /\ f_out' = FilterReceive(f_query, f_out.params, f_min_discount, r)
    /\ f_response' = r
    /\ f_pc' = (IF f_out'.raised THEN "raised" ELSE "returned")
    /\ UNCHANGED <<f_client, f_query, f_input, f_min_discount, agent_vars,
                   merge_vars, multiple_vars, product_vars, process_vars, parse_vars,
                   config_vars, app_vars>>

\* serp_api_client.py lines 146-213: the call is resumed with the answer
ResumeFilter == \E r \in Responses : ResumeWith(r)

\* while the call is suspended another coroutine writes the query object it
\* shares with the call
CallerWritesQuery ==
    /\ f_pc = "awaiting"
    /\ f_query.on_sale
    /\ f_query' = [f_query EXCEPT !.on_sale = FALSE]
    /\ UNCHANGED <<f_pc, f_client, f_input, f_min_discount, f_response, f_out,
                   agent_vars, merge_vars, multiple_vars, product_vars, process_vars,
                   parse_vars, config_vars, app_vars>>

\* while the call is suspended another coroutine closes the client
CallerClosesClient ==
    /\ f_pc = "awaiting"
    /\ f_client = "open"
    /\ f_client' = AExit(f_client)
    /\ UNCHANGED <<f_pc, f_query, f_input, f_min_discount, f_response, f_out,
                   agent_vars, merge_vars, multiple_vars, product_vars, process_vars,
                   parse_vars, config_vars, app_vars>>

NextFilter == CallFilter \/ ResumeFilter \/ CallerWritesQuery \/ CallerClosesClient
SpecFilter == InitFilter /\ [][NextFilter]_vars

-----------------------------------------------------------------------------
(* models.py: AgentResult;  agent.py: run *)

\* AgentResult(success=True), agent.py line 33
NewAgentResult ==
    [success |-> TRUE, products_found |-> 0, products_with_discount |-> 0,
     deals_created |-> 0, errors |-> <<>>, search_queries_processed |-> 0]

\* an add_error that also marks the run failed
AddErrorFailing(res, error) == [res EXCEPT !.errors = Append(@, error), !.success = FALSE]
\* models.py lines 139-140
AddError(res, error) == [res EXCEPT !.errors = Append(@, error)]

\* an error string that leaves the keyword out
QueryErrorNoKeyword(keyword, msg) == <<81, 117, 101, 114, 121, 32, 39, 39, 58, 32>> \o msg
\* agent.py line 232: f"Query '{query.keyword}': {str(e)}"
QueryError(keyword, msg) ==
    <<81, 117, 101, 114, 121, 32, 39>> \o keyword \o <<39, 58, 32>> \o msg

\* agent.py line 207: queries[:max_queries]; a negative max_queries counts from
\* the end of the list
Truncate(qs, n) == IF n >= 0 THEN Take(qs, n) ELSE Take(qs, Max(0, Len(qs) + n))

\* a count that takes only a higher original price for a discount
CountWithOldPrice(products) ==
    Cardinality({i \in 1..Len(products) :
                    /\ ~IsNone(products[i].original_price)
                    /\ AmountLess(products[i].price, Val(products[i].original_price))})
\* agent.py line 221: len([p for p in products if p.has_discount])
CountWithDiscount(products) ==
    Cardinality({i \in 1..Len(products) : HasDiscount(products[i])})

\* agent.py lines 220-222: the counters after one successful search
CountProducts(res, products) ==
    [res EXCEPT !.products_found = @ + Len(products),
                !.products_with_discount = @ + CountWithDiscount(products),
                !.search_queries_processed = @ + 1]

\* agent.py lines 212-232: self._result after the iteration whose search did out
AfterQuery(res, keyword, out) ==
    IF out.raised THEN AddError(res, QueryError(keyword, out.msg))
    ELSE CountProducts(res, out.discounted)

\* agent.py lines 212-232: what one iteration adds to the order of events; the
\* sleep of line 228 is the last statement of the try block
IterationEvents(out) ==
    <<"search">> \o (IF IsNone(out.params) THEN <<>> ELSE <<"request">>)
    \o (IF out.raised THEN <<>> ELSE <<"sleep">>)

\* what process_products did with one product, for the history p_log
LogEntry(product, exists, store_lookups, deal, create_attempts, created, error) ==
    [product |-> product, exists |-> exists, store_lookups |-> store_lookups,
     deal |-> deal, create_attempts |-> create_attempts, created |-> created,
     error |-> error]

\* agent.py lines 152-158: continue
ProcessSkipped(product, st, res, exists) ==
    [store |-> st, result |-> res, created |-> 0,
     entry |-> LogEntry(product, exists, 0, None, 0, FALSE, None)]

\* agent.py lines 171-174, made being what create_deal did
ProcessCreated(product, conv, made, res) ==
    [store |-> made.store, result |-> res,
     created |-> IF IsNone(made.id) THEN 0 ELSE 1,
     entry |-> LogEntry(product, FALSE, 1, conv.deal, 1, ~IsNone(made.id), None)]

\* a loop body whose handler drops the exception of the conversion
ProcessConvertedSilent(product, got, conv, st, connected, res, insert_ok) ==
    IF conv.raised
    THEN [store |-> [st EXCEPT !.stores = got.stores],
          result |-> res, created |-> 0,
          entry |-> LogEntry(product, FALSE, 1, None, 0, FALSE, Some(conv.msg))]
    ELSE ProcessCreated(product, conv,
                        CreateDeal(connected, insert_ok,
                                   [st EXCEPT !.stores = got.stores], Val(conv.deal)),
                        res)
\* agent.py lines 164-178, got being what get_or_create_store did and conv
\* what _product_to_deal did
ProcessConverted(product, got, conv, st, connected, res, insert_ok) ==
    IF conv.raised
    THEN [store |-> [st EXCEPT !.stores = got.stores],
          result |-> AddError(res, conv.msg), created |-> 0,
          entry |-> LogEntry(product, FALSE, 1, None, 0, FALSE, Some(conv.msg))]
    ELSE ProcessCreated(product, conv,
                        CreateDeal(connected, insert_ok,
                                   [st EXCEPT !.stores = got.stores], Val(conv.deal)),
                        res)

\* agent.py lines 161-178, got being what get_or_create_store did
ProcessWithStore(product, got, st, connected, res, insert_ok) ==
    ProcessConverted(product, got, ProductToDeal(product, None, got.id), st, connected,
                     res, insert_ok)

\* agent.py lines 150-178: the body of the loop for one product.  exists_ok,
\* store_ok and insert_ok tell whether the store answers the existence check,
\* the store lookup/creation and the insert.
ProcessOne(product, st, connected, res, exists_ok, store_ok, insert_ok) ==
    IF ~TruthyStr(product.product_link) THEN ProcessSkipped(product, st, res, FALSE)
    ELSE IF CheckDealExists(connected, exists_ok, st.urls, product.product_id)
    THEN ProcessSkipped(product, st, res, TRUE)
    ELSE ProcessWithStore(product,
                          GetOrCreateStore(connected, store_ok, st.stores, product.source),
                          st, connected, res, insert_ok)

\* The store calls of the loop body that failed inside the store client, in
\* the order made: agent.py line 156 (check_deal_exists), line 161
\* (get_or_create_store) and line 171 (create_deal).  A call fails when the
\* client is not connected (supabase_client.py line 30) or the store does not
\* answer; the client catches the exception (lines 152-154, 176-178, 211-213).
StoreFailures(product, st, connected, exists_ok, store_ok, insert_ok) ==
    IF ~TruthyStr(product.product_link) THEN <<>>
    ELSE IF CheckDealExists(connected, exists_ok, st.urls, product.product_id) THEN <<>>
    ELSE (IF connected /\ exists_ok THEN <<>> ELSE <<"check_deal_exists">>)
         \o (IF connected /\ store_ok THEN <<>> ELSE <<"get_or_create_store">>)
         \o (IF ProductToDeal(product, None, None).raised THEN <<>>
             ELSE IF connected /\ insert_ok THEN <<>> ELSE <<"create_deal">>)

-----------------------------------------------------------------------------
(* Specification Spec: the agent, its store and its first run *)

\* an alert row as the store returns it, with its joined category and tag rows
AlertRow(name, categories, tags) ==
    [name |-> name, categories |-> categories, tags |-> tags,
     category_id |-> IF IsNone(categories) THEN None ELSE Some(<<99, 49>>),
     max_price |-> None]

t_shoes_bags == <<83, 104, 111, 101, 115, 32, 102, 111, 114, 32, 40, 98, 97, 103,
                  115, 41, 33>>          \* "Shoes for (bags)!"
t_sise_icin == <<350, 304, 350, 69, 32, 105, 231, 105, 110>>   \* "ŞİŞE için"

AlertRows ==
    {AlertRow(Some(k_Shoes), None, None),
     AlertRow(Some(k_shoes), Some(Joined(Some(<<>>))), None),
     AlertRow(None, Some(Joined(Some(k_SISE))), None), AlertRow(None, None, None)}
DealTitles == {t_shoes_bags, t_sise_icin}

\* the sequences of at most n different elements of S
DistinctSeqsUpTo(S, n) ==
    {q \in SeqsUpTo(S, n) : \A i, j \in 1..Len(q) : i # j => q[i] # q[j]}

MaxAlerts == 2
MaxDeals == 1
MaxRuns == 1
MaxQueriesArg == 3

\* 10.0 (the configured default) and 15.0 percent
RunThresholds == {1000, 1500}

\* what the collaborator would answer a run's request
RunResponses ==
    {[status |-> "ok", msg |-> <<>>, shopping_results |-> <<i_old10, i_plain>>,
      inline_shopping_results |-> <<>>],
     [status |-> "http_error", msg |-> s_http500, shopping_results |-> <<>>,
      inline_shopping_results |-> <<>>]}

Init ==
    /\ store \in {[alerts |-> a, deals |-> d, urls |-> [i \in 1..Len(d) |-> s_link],
                   stores |-> <<>>, inserted |-> <<>>, app_rows |-> <<>>] :
                     a \in DistinctSeqsUpTo(AlertRows, MaxAlerts),
                     d \in SeqsUpTo(DealTitles, MaxDeals)}
    /\ supabase_connected = FALSE
    /\ serp_client = "none"
    /\ pc = "idle"
    /\ max_queries = 0
    /\ min_discount = 0
    /\ deal_alert_queries = <<>>
    /\ trending = <<>>
    /\ unique_queries = <<>>
    /\ queries = <<>>
    /\ idx = 1
    /\ result = NewAgentResult
    /\ result_at_start = NewAgentResult
    /\ attempted = <<>>
    /\ outcomes = <<>>
    /\ events = <<>>
    /\ runs = 0
    /\ FilterIdle
    /\ MergeIdle
    /\ MultipleIdle
    /\ ProductIdle
    /\ ProcessIdle
    /\ ParseIdle
    /\ ConfigIdle
    /\ AppIdle

\* supabase_client.py lines 21-25: a caller connects the agent's store client
Connect ==
    /\ pc \in {"idle", "done", "cancelled"}
    /\ ~supabase_connected
    /\ supabase_connected' = TRUE
    /\ UNCHANGED <<store, serp_client, pc, max_queries, min_discount,
                   deal_alert_queries, trending, unique_queries, queries, idx, result,
                   result_at_start, attempted, outcomes, events, runs,
                   filter_vars, merge_vars, multiple_vars,
                   product_vars, process_vars, parse_vars, config_vars, app_vars>>

\* agent.py lines 197-210: run(mq, md) up to the entry of the async with
RunStart ==
    /\ pc \in {"idle", "done", "cancelled"}
    /\ p_pc # "loop"
    /\ runs < MaxRuns
    /\ \E mq \in (0 - MaxQueriesArg)..MaxQueriesArg, md \in RunThresholds,
          alerts_ok, deals_ok \in BOOLEAN :
         \E kws \in GetTrendingKeywords(supabase_connected, deals_ok, store.deals,
                                        TrendingLimit) :
            /\ max_queries' = mq
            /\ min_discount' = md
            /\ deal_alert_queries' =
                   ForcePriority(GetActiveDealAlerts(supabase_connected, alerts_ok,
                                                     store.alerts))
            /\ trending' = kws
            /\ unique_queries' = MergeQueries(deal_alert_queries' \o TrendingQueries(kws))
            /\ queries' = Truncate(unique_queries', mq)
    /\ serp_client' = AEnter("none")
    /\ idx' = 1
    /\ pc' = "loop"
    /\ result_at_start' = result
    /\ attempted' = <<>>
    /\ outcomes' = <<>>
    /\ events' = <<>>
    /\ runs' = runs + 1
    /\ UNCHANGED <<store, supabase_connected, result, filter_vars, merge_vars, multiple_vars,
                   product_vars, process_vars, parse_vars, config_vars, app_vars>>

\* agent.py lines 212-232: the body of the loop for queries[idx], out being
\* what search_with_discount_filter did
Iterate(out) ==
    /\ result' = AfterQuery(result, queries[idx].keyword, out)
    /\ queries' = [queries EXCEPT ![idx] = out.query]
    /\ attempted' = Append(attempted, queries[idx])
    /\ outcomes' = Append(outcomes, [raised |-> out.raised, msg |-> out.msg,
                                     requested |-> ~IsNone(out.params),
                                     found |-> Len(out.discounted)])
    /\ events' = events \o IterationEvents(out)

\* agent.py lines 211-232: one iteration of the for loop
RunQuery ==
    /\ pc = "loop"
    /\ idx <= Len(queries)
    /\ \E r \in RunResponses :
         Iterate(SearchWithDiscountFilter(serp_client, queries[idx], min_discount, r))
    /\ idx' = idx + 1
    /\ UNCHANGED <<store, supabase_connected, serp_client, pc, max_queries,
                   min_discount, deal_alert_queries, trending, unique_queries,
                   result_at_start, runs, filter_vars, merge_vars, multiple_vars,
                   product_vars, process_vars, parse_vars, config_vars, app_vars>>

\* agent.py lines 210 and 234-243: the async with is left, run returns self._result
RunEnd ==
    /\ pc = "loop"
    /\ idx > Len(queries)
    /\ serp_client' = AExit(serp_client)
    /\ pc' = "done"
    /\ UNCHANGED <<store, supabase_connected, max_queries, min_discount,
                   deal_alert_queries, trending, unique_queries, queries, idx, result,
                   result_at_start, attempted, outcomes, events, runs,
                   filter_vars, merge_vars, multiple_vars,
                   product_vars, process_vars, parse_vars, config_vars, app_vars>>

\* agent.py lines 210-232: a BaseException that is no Exception (a
\* KeyboardInterrupt, a CancelledError) is raised in the body of the loop; line
\* 230 does not catch it and it leaves the async with and run
RunCancelled ==
    /\ pc = "loop"
    /\ idx <= Len(queries)
    /\ serp_client' = AExit(serp_client)
    /\ pc' = "cancelled"
    /\ UNCHANGED <<store, supabase_connected, max_queries, min_discount,
                   deal_alert_queries, trending, unique_queries, queries, idx, result,
                   result_at_start, attempted, outcomes, events, runs,
                   filter_vars, merge_vars, multiple_vars,
                   product_vars, process_vars, parse_vars, config_vars, app_vars>>

\* agent.py lines 182-210: the first call of run on the agent, whose result is
\* still the one of the constructor (later calls are in SpecSession)
RunFirst == runs = 0 /\ RunStart

Next == Connect \/ RunFirst \/ RunQuery \/ RunEnd \/ RunCancelled
Spec == Init /\ [][Next]_vars

-----------------------------------------------------------------------------
(* Specification SpecMultiple: search_multiple on a list of queries *)

MaxMultiple == 2

\* the queries of a batch: as the dataclass builds them, or with the undeclared
\* attributes attached
MultipleQueries ==
    {[SearchQuery(k, None, None, None, FALSE, 0) EXCEPT !.extra = e] :
        k \in {k_Shoes, k_bag}, e \in {{}, AllUndeclared}}

\* what the collaborator would answer a request of the batch
MultipleResponses ==
    RunResponses \cup
    {[status |-> "ok", msg |-> <<>>, shopping_results |-> <<i_tag51>>,
      inline_shopping_results |-> <<>>]}

InitMultiple ==
    /\ AgentIdle
    /\ FilterIdle
    /\ MergeIdle
    /\ ProductIdle
    /\ ProcessIdle
    /\ ParseIdle
    /\ b_pc = "loop"
    /\ b_client \in {"none", "open", "closed"}
    /\ b_queries \in SeqsUpTo(MultipleQueries, MaxMultiple)
    /\ b_input = b_queries
    /\ b_min_discount = 1000
    /\ b_idx = 1
    /\ b_results = <<>>
    /\ b_outs = <<>>
    /\ ConfigIdle
    /\ AppIdle

\* serp_api_client.py lines 234-238: the iteration for b_queries[b_idx] ends,
\* out being what search_with_discount_filter did and step what the loop body
\* made of it
MultipleLeave(out, step) ==
    /\ b_outs' = [i \in 1..b_idx |-> IF i = b_idx THEN out ELSE b_outs[i]]
    /\ b_results' = step.results
    /\ b_pc' = (IF step.raised THEN "raised" ELSE "loop")
    /\ b_idx' = b_idx + 1

\* lines 232-234 with q, the query object after line 196: out is what
\* search_with_discount_filter did up to the await of line 146
MultipleSent(q, out) ==
    /\ b_queries' = [b_queries EXCEPT ![b_idx] = q]
    /\ IF out.raised
       THEN MultipleLeave(out, MultipleStep(b_results, q.keyword, out))
       ELSE /\ b_outs' = Append(b_outs, out)
            /\ b_pc' = "awaiting"
            /\ UNCHANGED <<b_idx, b_results>>

\* serp_api_client.py lines 232-238: an iteration of the for loop starts and
\* runs to the await of line 146, or to its end when the search raises before
MultipleQuery ==
    /\ b_pc = "loop"
    /\ b_idx <= Len(b_queries)
    /\ MultipleSent(ForceOnSale(b_queries[b_idx]),
                    FilterSend(b_client, ForceOnSale(b_queries[b_idx]), b_min_discount))
    /\ UNCHANGED <<b_client, b_input, b_min_discount, agent_vars, filter_vars,
                   merge_vars, product_vars, process_vars, parse_vars, config_vars, app_vars>>

\* lines 234-238 read query.keyword when the search has ended
MultipleResumeWith(out) ==
    MultipleLeave(out, MultipleStep(b_results, b_queries[b_idx].keyword, out))

\* serp_api_client.py lines 146-213 and 234-238: the suspended search is resumed
\* with the answer and the iteration runs to its end
MultipleResume ==
    /\ b_pc = "awaiting"
    /\ \E r \in MultipleResponses :
         MultipleResumeWith(FilterReceive(b_queries[b_idx], b_outs[b_idx].params,
                                          b_min_discount, r))
    /\ UNCHANGED <<b_client, b_queries, b_input, b_min_discount, agent_vars,
                   filter_vars, merge_vars, product_vars, process_vars, parse_vars,
                   config_vars, app_vars>>

\* while a search is suspended another coroutine writes the keyword of a query
\* of the list it shares with the call (each query once)
MultipleCallerWrites ==
    /\ b_pc = "awaiting"
    /\ \E j \in 1..Len(b_queries), k \in {k_Shoes, k_bag} :
         /\ b_queries[j].keyword = b_input[j].keyword
         /\ k # b_queries[j].keyword
         /\ b_queries' = [b_queries EXCEPT ![j].keyword = k]
    /\ UNCHANGED <<b_pc, b_client, b_input, b_min_discount, b_idx, b_results, b_outs,
                   agent_vars, filter_vars, merge_vars, product_vars, process_vars,
                   parse_vars, config_vars, app_vars>>

\* serp_api_client.py line 240
MultipleReturn ==
    /\ b_pc = "loop"
    /\ b_idx > Len(b_queries)
    /\ b_pc' = "returned"
    /\ UNCHANGED <<b_client, b_queries, b_input, b_min_discount, b_idx, b_results,
                   b_outs, agent_vars, filter_vars, merge_vars, product_vars,
                   process_vars, parse_vars, config_vars, app_vars>>

NextMultiple == MultipleQuery \/ MultipleResume \/ MultipleCallerWrites \/ MultipleReturn
SpecMultiple == InitMultiple /\ [][NextMultiple]_vars

-----------------------------------------------------------------------------
(* Specification SpecParse: _parse_product on one raw item *)

s_call == <<67, 97, 108, 108, 32, 102, 111, 114, 32, 112, 114, 105, 99, 101>>
                                         \* "Call for price"
s_000 == <<48, 46, 48, 48>>              \* "0.00"
s_5 == <<36, 53>>                        \* "$5"
s_long == <<49, 46, 50, 51, 52, 53, 54, 32, 84, 76>>   \* "1.23456 TL"
s_1250arabic == <<1633, 1634, 46, 1637, 1632, 32, 84, 76>>   \* "١٢.٥٠ TL"
s_off_ligature == <<111, 64256>>         \* "oﬀ", 'o' followed by U+FB00

\* the values of "extracted_price": absent, 0, -5.00, 2.03, 50.00
ParseExtractedPrices ==
    {None, Some(Cents(0)), Some(Cents(0 - 500)), Some(Cents(203)), Some(Cents(5000))}
\* the values of "price": absent, "", "$1,234.56", "Call for price", "0.00", "$5",
\* "1.23456 TL", "١٢.٥٠ TL"
ParsePriceStrings ==
    {None, Some(<<>>), Some(s_price), Some(s_call), Some(s_000), Some(s_5), Some(s_long),
     Some(s_1250arabic)}
\* the values of "extracted_old_price": absent, 6.00, 8.00, 50.00, 100.00
ParseOldPrices ==
    {None, Some(Cents(600)), Some(Cents(800)), Some(Cents(5000)), Some(Cents(10000))}
ParseTags == {None, Some(s_51off), Some(s_50arabic)}
ParseExtensions == {None, Some(<<s_delivery, s_10off>>), Some(<<s_off_ligature>>)}

ParseItems ==
    {Item(<<49>>, ep, pr, old, tag, ext, Some(s_link)) :
        ep \in ParseExtractedPrices, pr \in ParsePriceStrings, old \in ParseOldPrices,
        tag \in ParseTags, ext \in ParseExtensions}
    \cup {i_null}

InitParse ==
    /\ AgentIdle
    /\ FilterIdle
    /\ MergeIdle
    /\ MultipleIdle
    /\ ProductIdle
    /\ ProcessIdle
    /\ ps_pc = "input"
    /\ ps_item \in ParseItems
    /\ ps_out = None
    /\ ConfigIdle
    /\ AppIdle

\* one call of _parse_product(ps_item)
CallParse ==
    /\ ps_pc = "input"
    /\ ps_out' = ParseProduct(ps_item)
    /\ ps_pc' = "parsed"
    /\ UNCHANGED <<ps_item, agent_vars, filter_vars, merge_vars, multiple_vars,
                   product_vars, process_vars, config_vars, app_vars>>

NextParse == CallParse
SpecParse == InitParse /\ [][NextParse]_vars

-----------------------------------------------------------------------------
(* Specification SpecProduct: the methods of one ShoppingProduct and its deal *)

s_100off == <<49, 48, 48, 37, 32, 79, 70, 70>>   \* "100% OFF"
s_Amazon == <<65, 109, 97, 122, 111, 110>>       \* "Amazon"

\* 1.08, 50.00 and 90.00
ProductPrices == {Cents(108), Cents(5000), Cents(9000)}
\* absent, 0, 50.00, 100.00
ProductOriginalPrices == {None, Some(Cents(0)), Some(Cents(5000)), Some(Cents(10000))}
\* absent, 0, 4, 10, 50, 100 and 150 percent
ProductPercentages ==
    {None, Some(0), Some(400), Some(1000), Some(5000), Some(10000), Some(15000)}
\* absent, "", "SALE", "51% OFF", "100% OFF", "٥٠%"
ProductTags ==
    {None, Some(<<>>), Some(s_sale), Some(s_51off), Some(s_100off), Some(s_50arabic)}

ProductSet ==
    {ShoppingProduct(<<49>>, s_Amazon, price, original, percentage, Some(s_link), tag) :
        price \in ProductPrices, original \in ProductOriginalPrices,
        percentage \in ProductPercentages, tag \in ProductTags}

InitProduct ==
    /\ AgentIdle
    /\ FilterIdle
    /\ MergeIdle
    /\ MultipleIdle
    /\ ProcessIdle
    /\ ParseIdle
    /\ pr_pc = "input"
    /\ pr_product \in ProductSet
    /\ pr_has_discount = FALSE
    /\ pr_effective = None
    /\ pr_deal = None
    /\ ConfigIdle
    /\ AppIdle

\* has_discount, calculate_discount_percentage() and _product_to_deal on
\* pr_product
CallProduct ==
    /\ pr_pc = "input"
    /\ pr_has_discount' = HasDiscount(pr_product)
    /\ pr_effective' = CalculateDiscountPercentage(pr_product)
    /\ pr_deal' = ProductToDeal(pr_product, None, None)
    /\ pr_pc' = "done"
    /\ UNCHANGED <<pr_product, agent_vars, filter_vars, merge_vars, multiple_vars,
                   process_vars, parse_vars, config_vars, app_vars>>

NextProduct == CallProduct
SpecProduct == InitProduct /\ [][NextProduct]_vars

-----------------------------------------------------------------------------
(* Specification SpecProcess: process_products on a batch of products *)

s_eBay == <<32, 101, 66, 97, 121, 32>>           \* " eBay "
s_link7 == <<104, 116, 116, 112, 115, 58, 47, 47, 120, 47, 112, 63, 105, 100, 61, 55>>
                                                 \* "https://x/p?id=7"
s_link9 == <<104, 116, 116, 112, 115, 58, 47, 47, 120, 47, 112, 63, 105, 100, 61, 57>>
                                                 \* "https://x/p?id=9"

\* a product the store has no deal for: 90.00, was 100.00
pp_new == ShoppingProduct(<<55>>, s_Amazon, Cents(9000), Some(Cents(10000)), Some(1000),
                          Some(s_link7), None)
\* a product a deal of the store may hold: 49.00, "51% OFF"
pp_known == ShoppingProduct(<<57>>, s_Amazon, Cents(4900), None, Some(5100), Some(s_link9),
                            Some(s_51off))
\* a product without a link
pp_nolink == ShoppingProduct(<<56>>, s_Amazon, Cents(5000), Some(Cents(10000)), Some(5000),
                             None, None)
\* the product of a raw item tagged "100% OFF"
pp_100 == ShoppingProduct(<<54>>, s_eBay, Cents(2000), None, Some(10000), Some(s_link),
                          Some(s_100off))

ProcessProductSet == {pp_new, pp_known, pp_nolink, pp_100}
MaxProducts == 3

\* the store before the batch: with or without a deal for product "9", with or
\* without the store row "Amazon"
ProcessStores ==
    {[alerts |-> <<>>, deals |-> <<>>, urls |-> u, stores |-> t, inserted |-> <<>>,
      app_rows |-> <<>>] :
        u \in {<<>>, <<s_link9>>},
        t \in {<<>>, <<[name |-> s_Amazon, slug |-> StoreSlug(s_Amazon),
                       is_active |-> TRUE]>>}}

InitProcess ==
    /\ store \in ProcessStores
    /\ supabase_connected \in BOOLEAN
    /\ serp_client = "none"
    /\ pc = "idle"
    /\ max_queries = 0
    /\ min_discount = 0
    /\ deal_alert_queries = <<>>
    /\ trending = <<>>
    /\ unique_queries = <<>>
    /\ queries = <<>>
    /\ idx = 1
    /\ result = NewAgentResult
    /\ result_at_start = NewAgentResult
    /\ attempted = <<>>
    /\ outcomes = <<>>
    /\ events = <<>>
    /\ runs = 0
    /\ FilterIdle
    /\ MergeIdle
    /\ MultipleIdle
    /\ ProductIdle
    /\ ParseIdle
    /\ p_pc = "loop"
    /\ p_products \in SeqsUpTo(ProcessProductSet, MaxProducts)
    /\ p_idx = 1
    /\ p_deals_created = 0
    /\ p_log = <<>>
    /\ p_failures = <<>>
    /\ ConfigIdle
    /\ AppIdle

\* agent.py lines 149-178 for p_products[p_idx], did being what the body did
ProcessStep(did, failures) ==
    /\ store' = did.store
    /\ result' = did.result
    /\ p_deals_created' = p_deals_created + did.created
    /\ p_log' = Append(p_log, did.entry)
    /\ p_failures' = Append(p_failures, failures)

\* agent.py lines 149-178: one iteration of the for loop
ProcessProduct ==
    /\ p_pc = "loop"
    /\ p_idx <= Len(p_products)
    /\ \E exists_ok, store_ok, insert_ok \in BOOLEAN :
         ProcessStep(ProcessOne(p_products[p_idx], store, supabase_connected, result,
                                exists_ok, store_ok, insert_ok),
                     StoreFailures(p_products[p_idx], store, supabase_connected,
                                   exists_ok, store_ok, insert_ok))
    /\ p_idx' = p_idx + 1
    /\ UNCHANGED <<supabase_connected, serp_client, pc, max_queries, min_discount,
                   deal_alert_queries, trending, unique_queries, queries, idx,
                   result_at_start, attempted, outcomes, events, runs,
                   p_pc, p_products, filter_vars, merge_vars, multiple_vars,
                   product_vars, parse_vars, config_vars, app_vars>>

\* agent.py line 180: return deals_created
ProcessReturn ==
    /\ p_pc = "loop"
    /\ p_idx > Len(p_products)
    /\ p_pc' = "returned"
    /\ UNCHANGED <<agent_vars, p_products, p_idx, p_deals_created, p_log, p_failures,
                   filter_vars,
                   merge_vars, multiple_vars, product_vars, parse_vars, config_vars, app_vars>>

NextProcess == ProcessProduct \/ ProcessReturn
SpecProcess == InitProcess /\ [][NextProcess]_vars

-----------------------------------------------------------------------------
(* Specification SpecSession: a caller with one agent *)

\* The caller of run.py (lines 107-147) and of the package: it constructs one
\* agent, may connect its store, and calls run and process_products on it one
\* after the other.

MaxBatch == 1

\* one active alert, one approved deal whose url names product "9"
SessionStore ==
    [alerts |-> <<AlertRow(Some(k_Shoes), None, None)>>, deals |-> <<t_shoes_bags>>,
     urls |-> <<s_link9>>, stores |-> <<>>, inserted |-> <<>>, app_rows |-> <<>>]

InitSession ==
    /\ store = SessionStore
    /\ supabase_connected = FALSE
    /\ serp_client = "none"
    /\ pc = "idle"
    /\ max_queries = 0
    /\ min_discount = 0
    /\ deal_alert_queries = <<>>
    /\ trending = <<>>
    /\ unique_queries = <<>>
    /\ queries = <<>>
    /\ idx = 1
    /\ result = NewAgentResult
    /\ result_at_start = NewAgentResult
    /\ attempted = <<>>
    /\ outcomes = <<>>
    /\ events = <<>>
    /\ runs = 0
    /\ FilterIdle
    /\ MergeIdle
    /\ MultipleIdle
    /\ ProductIdle
    /\ ProcessIdle
    /\ ParseIdle
    /\ ConfigIdle
    /\ AppIdle

\* agent.py lines 132-147: process_products(products) is called on the agent
ProcessStart ==
    /\ p_pc = "idle"
    /\ pc \in {"idle", "done", "cancelled"}
    /\ p_products' \in SeqsUpTo(ProcessProductSet, MaxBatch)
    /\ p_pc' = "loop"
    /\ p_idx' = 1
    /\ p_deals_created' = 0
    /\ p_log' = <<>>
    /\ p_failures' = <<>>
    /\ UNCHANGED <<agent_vars, filter_vars, merge_vars, multiple_vars, product_vars,
                   parse_vars, config_vars, app_vars>>

NextSession ==
    \/ Connect \/ RunStart \/ RunQuery \/ RunEnd \/ RunCancelled
    \/ ProcessStart \/ ProcessProduct \/ ProcessReturn
SpecSession == InitSession /\ [][NextSession]_vars

-----------------------------------------------------------------------------
(* Specification SpecDeals: the agent and the review app on the table deals *)

\* process_products of an agent (agent.py) and send_to_approval of the review
\* app (streamlit_app.py), each with its own store client, insert into the same
\* table; the app's call may come before, between or after the iterations of
\* the agent's loop.

\* the products the review app can send: one without a link, one the store
\* holds a deal for
ApprovalProducts == {pp_nolink, pp_known}
MaxSelected == 1

\* streamlit_app.py lines 276-314: the review app's send_to_approval(selected)
\* is called; the app has its own store client (line 101)
SendToApproval ==
    /\ a_pc = "idle"
    /\ \E selected \in SeqsUpTo(ApprovalProducts, MaxSelected) :
         \E insert_ok \in [1..Len(selected) -> BOOLEAN] :
            /\ a_count' = ApprovalSent(a_client, store.app_rows, selected, insert_ok).count
            /\ store' = [store EXCEPT !.app_rows =
                            ApprovalSent(a_client, store.app_rows, selected, insert_ok).rows]
    /\ a_pc' = "returned"
    /\ UNCHANGED <<supabase_connected, serp_client, pc, max_queries, min_discount,
                   deal_alert_queries, trending, unique_queries, queries, idx, result,
                   result_at_start, attempted, outcomes, events, runs, a_client,
                   filter_vars, merge_vars, multiple_vars, product_vars, process_vars,
                   parse_vars, config_vars>>

InitDeals ==
    /\ store \in ProcessStores
    /\ supabase_connected \in BOOLEAN
    /\ serp_client = "none"
    /\ pc = "idle"
    /\ max_queries = 0
    /\ min_discount = 0
    /\ deal_alert_queries = <<>>
    /\ trending = <<>>
    /\ unique_queries = <<>>
    /\ queries = <<>>
    /\ idx = 1
    /\ result = NewAgentResult
    /\ result_at_start = NewAgentResult
    /\ attempted = <<>>
    /\ outcomes = <<>>
    /\ events = <<>>
    /\ runs = 0
    /\ FilterIdle
    /\ MergeIdle
    /\ MultipleIdle
    /\ ProductIdle
    /\ ParseIdle
    /\ p_pc = "loop"
    /\ p_products \in SeqsUpTo(ProcessProductSet, MaxBatch)
    /\ p_idx = 1
    /\ p_deals_created = 0
    /\ p_log = <<>>
    /\ p_failures = <<>>
    /\ ConfigIdle
    /\ a_pc = "idle"
    /\ a_client \in BOOLEAN
    /\ a_count = 0

NextDeals == ProcessProduct \/ ProcessReturn \/ SendToApproval
SpecDeals == InitDeals /\ [][NextDeals]_vars

-----------------------------------------------------------------------------
(* Specification SpecScope: the async with of run and the async with of a caller *)

\* run opens its SerpApiClient in an async with (agent.py line 210); a caller
\* such as run.py (line 120) opens one of its own and may call
\* search_with_discount_filter on it before, inside and after its async with.

InitScope ==
    /\ store = SessionStore
    /\ supabase_connected \in BOOLEAN
    /\ serp_client = "none"
    /\ pc = "idle"
    /\ max_queries = 0
    /\ min_discount = 0
    /\ deal_alert_queries = <<>>
    /\ trending = <<>>
    /\ unique_queries = <<>>
    /\ queries = <<>>
    /\ idx = 1
    /\ result = NewAgentResult
    /\ result_at_start = NewAgentResult
    /\ attempted = <<>>
    /\ outcomes = <<>>
    /\ events = <<>>
    /\ runs = 0
    /\ MergeIdle
    /\ MultipleIdle
    /\ ProductIdle
    /\ ProcessIdle
    /\ ParseIdle
    /\ f_pc = "input"
    /\ f_client = "none"
    /\ f_query \in FilterQueries
    /\ f_input = f_query
    /\ f_min_discount = 1000
    /\ f_response = NoResponse
    /\ f_out = FilterSend("none", f_query, f_min_discount)
    /\ ConfigIdle
    /\ AppIdle

\* serp_api_client.py lines 22-24: the caller's async with is entered
ClientEnter ==
    /\ f_client = "none"
    /\ f_client' = AEnter(f_client)
    /\ UNCHANGED <<f_pc, f_query, f_input, f_min_discount, f_response, f_out,
                   agent_vars, merge_vars, multiple_vars, product_vars, process_vars,
                   parse_vars, config_vars, app_vars>>

\* serp_api_client.py lines 26-28: the caller's async with is left, by the end
\* of its body or by an exception of its body, also while a search that
\* another coroutine called on the client is suspended
ClientExit ==
    /\ f_client = "open"
    /\ f_client' = AExit(f_client)
    /\ UNCHANGED <<f_pc, f_query, f_input, f_min_discount, f_response, f_out,
                   agent_vars, merge_vars, multiple_vars, product_vars, process_vars,
                   parse_vars, config_vars, app_vars>>

\* the caller calls search_with_discount_filter(f_query, f_min_discount) on its
\* client, whatever the state of the client; the call runs to the await of
\* line 146 or to the exception raised before it
ClientSearch == CallFilter

\* serp_api_client.py lines 146-213: the caller's search is resumed with the
\* answer to its request
ClientSearchResume == \E r \in RunResponses : ResumeWith(r)

NextScope ==
    \/ RunStart \/ RunQuery \/ RunEnd \/ RunCancelled
    \/ ClientEnter \/ ClientSearch \/ ClientSearchResume \/ ClientExit
SpecScope == InitScope /\ [][NextScope]_vars

-----------------------------------------------------------------------------
(* Specification SpecConfig: the construction of the agent *)

s_key == <<115, 107, 45, 49>>                                \* "sk-1"
s_url == <<104, 116, 116, 112, 115, 58, 47, 47, 100, 98>>    \* "https://db"
s_blank == <<32>>                                            \* " "

\* a variable of the environment: not set, empty, blank, or a text
EnvKeys == {None, Some(<<>>), Some(s_blank), Some(s_key)}
EnvUrls == {None, Some(<<>>), Some(s_url)}

Environments ==
    {[SERP_API_KEY |-> a, SUPABASE_URL |-> u, SUPABASE_ANON_KEY |-> k,
      SUPABASE_SERVICE_ROLE_KEY |-> r] :
        a \in EnvKeys, u \in EnvUrls, k \in EnvKeys, r \in {None, Some(s_key)}}

InitConfig ==
    /\ AgentIdle
    /\ FilterIdle
    /\ MergeIdle
    /\ MultipleIdle
    /\ ProductIdle
    /\ ProcessIdle
    /\ ParseIdle
    /\ cfg_pc = "input"
    /\ cfg_env \in Environments
    /\ cfg_config \in {None, Some(AgentConfig(s_key, s_url, s_key, None))}
    /\ cfg_out = None
    /\ AppIdle

\* GoogleShoppingAgent(cfg_config) in the environment cfg_env
Construct ==
    /\ cfg_pc = "input"
    /\ cfg_out' = NewAgent(cfg_config, cfg_env)
    /\ cfg_pc' = (IF cfg_out'.raised THEN "raised" ELSE "constructed")
    /\ UNCHANGED <<cfg_env, cfg_config, agent_vars, filter_vars, merge_vars,
                   multiple_vars, product_vars, process_vars, parse_vars, app_vars>>

NextConfig == Construct
SpecConfig == InitConfig /\ [][NextConfig]_vars

-----------------------------------------------------------------------------
(* Properties of gather_search_queries and its merge step *)

LowerKeys(qs) == {Lower(qs[i].keyword) : i \in 1..Len(qs)}

\* the lowercased keywords of the queries qs, in order
LowerSeq(qs) == [i \in 1..Len(qs) |-> Lower(qs[i].keyword)] \o <<>>

\* the lowercased words ws, in order
LowerWords(ws) == [i \in 1..Len(ws) |-> Lower(ws[i])] \o <<>>

\* no two elements of the sequence ks are equal
AllDifferent(ks) == \A i, j \in 1..Len(ks) : i # j => ks[i] # ks[j]

\* C1: after gather_search_queries returns, no two queries of the returned list
\* have the same lowercased keyword, whatever the store supplied.
C1_NoDuplicateKeywords == AllDifferent(LowerSeq(unique_queries))

\* the store supplied keywords that differ in case only, and several queries survive
C1_Witness ==
    /\ pc = "loop"
    /\ Len(unique_queries) >= 2
    /\ \E i, j \in 1..Len(deal_alert_queries) :
          /\ i # j
          /\ deal_alert_queries[i].keyword # deal_alert_queries[j].keyword
          /\ Lower(deal_alert_queries[i].keyword) = Lower(deal_alert_queries[j].keyword)
    /\ \E i \in 1..Len(trending) : trending[i] \in LowerKeys(deal_alert_queries)

\* the queries of qs whose lowercased keyword is k
Group(qs, k) == {i \in 1..Len(qs) : Lower(qs[i].keyword) = k}

\* the first query of the highest priority among those of qs with keyword k
Winner(qs, k) ==
    CHOOSE i \in Group(qs, k) :
        \A j \in Group(qs, k) :
            \/ qs[j].priority < qs[i].priority
            \/ (qs[j].priority = qs[i].priority /\ i <= j)

MergeExampleIn ==
    <<SearchQuery(k_shoes, None, None, None, TRUE, 5),
      SearchQuery(k_Shoes, None, None, None, TRUE, 10),
      SearchQuery(k_bag, None, None, None, TRUE, 1)>>
MergeExampleOut ==
    <<SearchQuery(k_Shoes, None, None, None, TRUE, 10),
      SearchQuery(k_bag, None, None, None, TRUE, 1)>>

\* C2: the merge step returns its input stable-sorted by descending priority and
\* deduplicated first-wins by lowercased keyword: priorities never increase along
\* the output, every lowercased keyword of the input survives exactly once, the
\* survivor is the first input query of the highest priority for that keyword,
\* and survivors of equal priority keep their input order; [shoes/5, Shoes/10,
\* bag/1] yields [Shoes/10, bag/1].
C2_MergeIsStableSortDedup ==
    m_pc = "merged" =>
        /\ \A i \in 1..(Len(m_out) - 1) : m_out[i].priority >= m_out[i + 1].priority
        /\ LowerKeys(m_out) = LowerKeys(m_in)
        /\ Len(m_out) = Cardinality(LowerKeys(m_in))
        /\ \A i \in 1..Len(m_out) :
              m_out[i] = m_in[Winner(m_in, Lower(m_out[i].keyword))]
        /\ \A i, j \in 1..Len(m_out) :
              (i < j /\ m_out[i].priority = m_out[j].priority)
                  => Winner(m_in, Lower(m_out[i].keyword))
                         < Winner(m_in, Lower(m_out[j].keyword))
        /\ (m_in = MergeExampleIn => m_out = MergeExampleOut)

\* the example of the specification has been merged
C2_Witness == m_pc = "merged" /\ m_in = MergeExampleIn /\ m_out = MergeExampleOut

\* k is an element of the sequence ks
Among(k, ks) == \E i \in 1..Len(ks) : ks[i] = k

\* the index of the first element of ks that is k
FirstOf(k, ks) == CHOOSE i \in 1..Len(ks) : ks[i] = k /\ \A j \in 1..(i - 1) : ks[j] # k

\* uq, alerts and words being the returned queries, the alert queries and the
\* trending keywords, and lu, la and lw their lowercased keywords: a query of uq
\* with the keyword of an alert is the first such alert with priority 10, any
\* other is a trending keyword's query with priority 5 and on_sale; every
\* keyword survives; every alert query precedes every trending query
AlertsFirst(uq, alerts, words, lu, la, lw) ==
    /\ \A i \in 1..Len(uq) :
          IF Among(lu[i], la)
          THEN /\ uq[i].priority = 10
               /\ uq[i] = alerts[FirstOf(lu[i], la)]
          ELSE /\ uq[i].priority = 5
               /\ uq[i].on_sale
               /\ Among(uq[i].keyword, words)
    /\ \A a \in 1..Len(la) : Among(la[a], lu)
    /\ \A t \in 1..Len(lw) : Among(lw[t], lu)
    /\ \A i, j \in 1..Len(uq) : (uq[i].priority = 10 /\ uq[j].priority = 5) => i < j

\* C3: in the list gather_search_queries returns, a query that came from an alert
\* has priority 10 (the store layer built it with priority 1), a query that came
\* from a trending keyword has priority 5 and on_sale true; every alert query
\* precedes every trending query; and for a keyword that an alert and a trending
\* keyword share case-insensitively the alert query is the one kept.
C3_AlertsFirstWithForcedPriority ==
    AlertsFirst(unique_queries, deal_alert_queries, trending, LowerSeq(unique_queries),
                LowerSeq(deal_alert_queries), LowerWords(trending))

\* an alert the store layer built with priority 1 and a trending keyword that
\* equals it case-insensitively were gathered, together with another trending query
C3_Witness ==
    /\ pc = "loop"
    /\ \E a \in 1..Len(AlertQueries(store.alerts)), t \in 1..Len(trending) :
          /\ AlertQueries(store.alerts)[a].priority = 1
          /\ AlertQueries(store.alerts)[a].keyword # trending[t]
          /\ Lower(AlertQueries(store.alerts)[a].keyword) = Lower(trending[t])
          /\ \E i \in 1..Len(unique_queries) :
                /\ unique_queries[i].keyword = AlertQueries(store.alerts)[a].keyword
                /\ unique_queries[i].priority = 10
    /\ \E i \in 1..Len(unique_queries) : unique_queries[i].priority = 5

-----------------------------------------------------------------------------
(* Properties of run *)

\* the error strings this run has appended
RunErrors ==
    SubSeq(result.errors, Len(result_at_start.errors) + 1, Len(result.errors))

\* the searches of this run that raised, in the order attempted
Raised == SelectIdx([i \in 1..Len(outcomes) |-> outcomes[i].raised], 1)

\* the searches of this run that failed at the external search collaborator: a
\* request was sent and it raised
FailedAtCollaborator ==
    {i \in 1..Len(outcomes) : outcomes[i].requested /\ outcomes[i].raised}

\* C4: run attempts at most max_queries searches, and the queries it attempts are
\* the first max_queries entries, in order, of the list gather_search_queries
\* returned, so that no dropped query has a higher priority than an attempted one.
C4_AttemptsArePrefix ==
    /\ Len(attempted) <= max_queries
    /\ Len(attempted) <= Len(unique_queries)
    /\ attempted = SubSeq(unique_queries, 1, Len(attempted))
    /\ pc = "done" =>
          /\ Len(attempted) = (IF max_queries < Len(unique_queries)
                               THEN max_queries ELSE Len(unique_queries))
          /\ \A i \in 1..Len(attempted), j \in (Len(attempted) + 1)..Len(unique_queries) :
                unique_queries[i].priority >= unique_queries[j].priority

\* C5: when the search for a query raises, exactly one string "Query '<keyword>':
\* <message>" for that query is appended to the error list, and the loop goes on:
\* the errors of the run are those strings, one per failed search in the order
\* attempted, every query of the truncated list is attempted, and run returns.
C5_FailureRecordedAndLoopContinues ==
    pc \in {"loop", "done"} =>
        /\ RunErrors = [n \in 1..Len(Raised) |->
                           <<81, 117, 101, 114, 121, 32, 39>>
                           \o attempted[Raised[n]].keyword
                           \o <<39, 58, 32>> \o outcomes[Raised[n]].msg]
        /\ Len(attempted) = idx - 1
        /\ Len(outcomes) = Len(attempted)
        /\ \A i \in 1..Len(attempted) : attempted[i].keyword = queries[i].keyword
        /\ pc = "done" => Len(attempted) = Len(queries)

\* a run returned after its first search raised and a later query was attempted
C5_Witness ==
    /\ pc = "done"
    /\ Len(attempted) >= 2
    /\ outcomes[1].raised
    /\ Len(RunErrors) >= 2
    /\ attempted[1].keyword # attempted[2].keyword

\* C6: a run that attempted n queries, k of which failed at the external search
\* collaborator, returns with queriesProcessed grown by n - k and k error strings.
C6_ProcessedIsAttemptedMinusFailed ==
    pc = "done" =>
        /\ result.search_queries_processed - result_at_start.search_queries_processed
              = Len(attempted) - Cardinality(FailedAtCollaborator)
        /\ Len(RunErrors) = Cardinality(FailedAtCollaborator)

\* C7: the result has success = TRUE whatever failed, also when every query of
\* the run failed.
C7_SuccessStaysTrue == result.success = TRUE

\* a run returned after every one of its searches raised
C7_Witness ==
    /\ pc = "done"
    /\ Len(attempted) >= 2
    /\ \A i \in 1..Len(outcomes) : outcomes[i].raised
    /\ Len(result.errors) >= 2
    /\ result.success

-----------------------------------------------------------------------------
(* Properties of search_with_discount_filter *)

\* the products search parsed from the response, in payload order
ParsedProducts ==
    ParseAll(f_response.shopping_results) \o ParseAll(f_response.inline_shopping_results)

\* the effective discount percentage of a product
Effective(p) == CalculateDiscountPercentage(p)

\* the products of ps at the indices where keep holds
Kept(ps, keep) == Pick(ps, SelectIdx(keep, 1))

\* the products of ps with has_discount whose effective discount percentage is
\* defined and >= min
DefinedAtLeast(ps, min) ==
    Kept(ps, [i \in 1..Len(ps) |->
                 /\ HasDiscount(ps[i])
                 /\ ~IsNone(Effective(ps[i]))
                 /\ Val(Effective(ps[i])) >= min])

\* the products of ps with has_discount whose effective discount percentage is
\* defined, not zero and >= min
NonZeroAtLeast(ps, min) ==
    Kept(ps, [i \in 1..Len(ps) |->
                 /\ HasDiscount(ps[i])
                 /\ ~IsNone(Effective(ps[i]))
                 /\ Val(Effective(ps[i])) # 0
                 /\ Val(Effective(ps[i])) >= min])

\* p is an element of the sequence out
IsIn(p, out) == \E n \in 1..Len(out) : out[n] = p

\* the threshold is inclusive, and a product without an effective discount
\* percentage is never in out
BoundaryKept(ps, out, min) ==
    \A i \in 1..Len(ps) :
        /\ (Effective(ps[i]) = Some(1000) /\ min = 1000) => IsIn(ps[i], out)
        /\ (Effective(ps[i]) = Some(1000) /\ min = 1001) => ~IsIn(ps[i], out)
        /\ IsNone(Effective(ps[i])) => ~IsIn(ps[i], out)

\* C9 as stated: the call returns exactly the parsed products with has_discount
\* whose effective discount percentage is defined and >= min_discount.
C9_ExactlyDefinedAtLeastThreshold ==
    f_pc = "returned" => f_out.discounted = DefinedAtLeast(ParsedProducts, f_min_discount)

\* C9, amended: the call returns exactly the parsed products with has_discount
\* whose effective discount percentage is defined, is not zero and is >=
\* min_discount; the threshold is inclusive (10.0 is kept at 10.0, dropped at
\* 10.01) and a product whose tag holds no number is dropped.
C9_ExactlyNonZeroAtLeastThreshold ==
    f_pc = "returned" =>
        /\ f_out.discounted = NonZeroAtLeast(ParsedProducts, f_min_discount)
        /\ BoundaryKept(ParsedProducts, f_out.discounted, f_min_discount)

\* ps holds a product whose only discount signal is a tag without a number, and
\* out does not hold it
TagWithoutNumberDropped(ps, out) ==
    \E i \in 1..Len(ps) :
        /\ HasDiscount(ps[i])
        /\ ~IsNone(ps[i].discount_tag)
        /\ IsNone(Effective(ps[i]))
        /\ ~IsIn(ps[i], out)

\* a call at threshold 10.0 returned a product of exactly 10.0 percent and dropped
\* a product whose only discount signal is a tag without a number
C9_Witness ==
    /\ f_pc = "returned"
    /\ f_min_discount = 1000
    /\ \E n \in 1..Len(f_out.discounted) : Effective(f_out.discounted[n]) = Some(1000)
    /\ TagWithoutNumberDropped(ParsedProducts, f_out.discounted)

\* C10: with min_discount = 0 the call returns no product whose has_discount is
\* false.
C10_ZeroThresholdStillNeedsDiscount ==
    (f_pc = "returned" /\ f_min_discount = 0) =>
        \A n \in 1..Len(f_out.discounted) : HasDiscount(f_out.discounted[n])

\* ps holds a product without a discount and is longer than out
SomeWithoutDiscount(ps, out) ==
    /\ \E i \in 1..Len(ps) : ~HasDiscount(ps[i])
    /\ Len(out) < Len(ps)

\* a call at threshold 0 found a product without a discount and returned another
C10_Witness ==
    /\ f_pc = "returned"
    /\ f_min_discount = 0
    /\ Len(f_out.discounted) >= 1
    /\ SomeWithoutDiscount(ParsedProducts, f_out.discounted)

RECURSIVE IsSubsequence(_, _)
\* a is b with some of its elements left out, the others in b's order
IsSubsequence(a, b) ==
    IF a = <<>> THEN TRUE
    ELSE IF b = <<>> THEN FALSE
    ELSE IF Head(a) = Head(b) THEN IsSubsequence(Tail(a), Tail(b))
    ELSE IsSubsequence(a, Tail(b))

\* C11: what search_with_discount_filter returns is a subsequence of the products
\* of the raw items in payload order, all "shopping_results" items first, then
\* all "inline_shopping_results" items: nothing is reordered or duplicated.
C11_OutputKeepsPayloadOrder ==
    f_pc = "returned" =>
        /\ IsSubsequence(f_out.discounted, ParsedProducts)
        /\ f_out.products = ParsedProducts

\* out is the first and the third of the three elements of ps
FirstAndThirdOf(out, ps) == Len(ps) = 3 /\ out[1] = ps[1] /\ out[2] = ps[3]

\* a call returned two different products, one of a "shopping_results" item and
\* one of an "inline_shopping_results" item, and dropped a product between them
C11_Witness ==
    /\ f_pc = "returned"
    /\ Len(f_out.discounted) = 2
    /\ f_out.discounted[1] # f_out.discounted[2]
    /\ Len(f_response.inline_shopping_results) = 1
    /\ FirstAndThirdOf(f_out.discounted, ParsedProducts)

-----------------------------------------------------------------------------
(* Properties of search_multiple *)

\* no other coroutine wrote a query of the batch
Untouched == \A i \in 1..Len(b_queries) : b_queries[i].keyword = b_input[i].keyword

\* a search was made for every input query, in list order
SearchedInListOrder ==
    /\ Len(b_outs) = Len(b_input)
    /\ Untouched => \A i \in 1..Len(b_input) : b_outs[i].query = ForceOnSale(b_input[i])

\* the keyword query i had when its search ended
KeywordAtEnd(i) == b_outs[i].query.keyword

\* the last query of the batch with the keyword of query i
LastWithKeyword(i) ==
    CHOOSE j \in i..Len(b_outs) :
        /\ KeywordAtEnd(j) = KeywordAtEnd(i)
        /\ \A k \in (j + 1)..Len(b_outs) : KeywordAtEnd(k) # KeywordAtEnd(i)

\* C12 as stated: search_multiple never raises, searches every input query in
\* list order, and returns a mapping with an entry for every input query's
\* keyword in which every query whose search raised maps to an empty sequence.
C12_FailedQueryMapsToEmpty ==
    /\ b_pc # "raised"
    /\ b_pc = "returned" =>
          /\ SearchedInListOrder
          /\ \A i \in 1..Len(b_input) :
                /\ b_input[i].keyword \in DictKeys(b_results)
                /\ b_outs[i].raised => DictGet(b_results, b_input[i].keyword) = <<>>

\* C12, amended: search_multiple never raises, searches every input query in
\* list order, and returns a mapping with an entry for the keyword each query
\* has when its search ends (its input keyword, unless another coroutine wrote
\* it while a search was pending), the entry of a keyword being the result of
\* the last query with that keyword: an empty sequence if that search raised,
\* else what it returned.
C12_EntryIsLastQuerysResult ==
    /\ b_pc # "raised"
    /\ b_pc = "returned" =>
          /\ SearchedInListOrder
          /\ DictKeys(b_results) = {KeywordAtEnd(i) : i \in 1..Len(b_outs)}
          /\ Untouched =>
                DictKeys(b_results) = {b_input[i].keyword : i \in 1..Len(b_input)}
          /\ \A i \in 1..Len(b_outs) :
                DictGet(b_results, KeywordAtEnd(i)) =
                    IF b_outs[LastWithKeyword(i)].raised THEN <<>>
                    ELSE b_outs[LastWithKeyword(i)].discounted

\* a batch of two keywords returned after its first search raised and its
\* second search found a product
C12_Witness ==
    /\ b_pc = "returned"
    /\ Len(b_queries) = 2
    /\ Untouched
    /\ b_queries[1].keyword # b_queries[2].keyword
    /\ b_outs[1].raised
    /\ ~b_outs[2].raised
    /\ DictGet(b_results, b_queries[1].keyword) = <<>>
    /\ Len(DictGet(b_results, b_queries[2].keyword)) = 1

-----------------------------------------------------------------------------
(* Properties of _parse_product and of search's parsing loops *)

\* the number a formatted price string of the model holds; None when it holds
\* none
NumberIn(price_str) ==
    CASE price_str = s_price -> Some(Cents(123456))
      [] price_str = s_5 -> Some(Cents(500))
      [] price_str = s_000 -> Some(Cents(0))
      [] price_str = s_long -> Some(Amount(123456, 5))
      [] price_str = s_1250arabic -> Some(Cents(1250))
      [] OTHER -> None

\* the price the claim resolves for a raw item: the pre-extracted numeric price
\* when present, otherwise the number of the formatted price string
ResolvedPrice(item) ==
    IF ~IsNone(item.extracted_price) THEN item.extracted_price
    ELSE IF IsNone(item.price) THEN None
    ELSE NumberIn(Val(item.price))

\* C13: _parse_product yields no product, or a product whose price is positive
\* and is the pre-extracted numeric price when present, otherwise the number
\* extracted from the formatted price string; an item without an extractable
\* number, or whose resolved price is zero or negative, yields no product.
C13_ProductHasPositiveResolvedPrice ==
    (ps_pc = "parsed" /\ ps_item.object) =>
        /\ ~IsNone(ps_out) =>
              /\ Val(ps_out).price.m > 0
              /\ Some(Val(ps_out).price) = ResolvedPrice(ps_item)
        /\ IsNone(ResolvedPrice(ps_item)) => IsNone(ps_out)
        /\ (~IsNone(ResolvedPrice(ps_item)) /\ Val(ResolvedPrice(ps_item)).m <= 0)
              => IsNone(ps_out)
        /\ (~IsNone(ResolvedPrice(ps_item)) /\ Val(ResolvedPrice(ps_item)).m > 0)
              => ~IsNone(ps_out)

\* an item without a pre-extracted price was parsed to a product priced by its
\* formatted price string "$1,234.56"
C13_Witness ==
    /\ ps_pc = "parsed"
    /\ IsNone(ps_item.extracted_price)
    /\ ps_item.price = Some(s_price)
    /\ ~IsNone(ps_out)
    /\ Val(ps_out).price = Cents(123456)

\* an item whose pre-extracted price is 0 was rejected although its formatted
\* price string holds a positive number
C13_WitnessZero ==
    /\ ps_pc = "parsed"
    /\ ps_item.extracted_price = Some(Cents(0))
    /\ ps_item.price = Some(s_5)
    /\ IsNone(ps_out)

\* the items of a payload array whose parse does not raise
WellFormed(items) == Pick(items, SelectIdx([i \in 1..Len(items) |-> items[i].object], 1))

\* C14: an item whose parse raises is skipped; search does not raise and
\* returns the products of all other items of the payload.
C14_MalformedItemIsSkipped ==
    /\ (~IsNone(f_out.params) /\ f_response.status = "ok") => ~f_out.raised
    /\ f_pc = "returned" =>
          f_out.products =
              ParseAll(WellFormed(f_response.shopping_results))
              \o ParseAll(WellFormed(f_response.inline_shopping_results))

\* a search whose payload holds a malformed item followed by a good one
\* returned the good one's product
C14_Witness ==
    /\ f_pc = "returned"
    /\ Len(f_response.shopping_results) = 2
    /\ ~f_response.shopping_results[1].object
    /\ f_response.shopping_results[2] = i_old10
    /\ Len(f_out.products) >= 1
    /\ f_out.products[1].product_id = i_old10.product_id

-----------------------------------------------------------------------------
(* Properties of ShoppingProduct *)

\* C15: has_discount is true exactly when discount_percentage is present and
\* > 0, or original_price is present and price < original_price, or
\* discount_tag is present.
C15_HasDiscountIff ==
    pr_pc = "done" =>
        (pr_has_discount <=>
            \/ (pr_product.discount_percentage # None
                   /\ pr_product.discount_percentage[1] > 0)
            \/ (pr_product.original_price # None
                   /\ AmountLess(pr_product.price, pr_product.original_price[1]))
            \/ pr_product.discount_tag # None)

\* a product whose only discount signal is a tag without a number has a
\* discount
C15_Witness ==
    /\ pr_pc = "done"
    /\ pr_product.discount_percentage = None
    /\ pr_product.original_price = None
    /\ pr_product.discount_tag = Some(s_sale)
    /\ pr_has_discount

\* the number right before a '%' sign in a tag of the model, in hundredths of a
\* percent; None when the tag holds none
TagNumber(tag) ==
    CASE tag = s_51off -> Some(5100)
      [] tag = s_100off -> Some(10000)
      [] tag = s_50arabic -> Some(5000)
      [] OTHER -> None

\* C16: calculate_discount_percentage gives the explicit discount_percentage
\* when present; else the value computed from original_price and price (when
\* original_price is present and above price); else the number right before
\* the '%' of discount_tag; else nothing.  (The computed value is exact for
\* the prices of ProductSet.)
C16_StrictPrecedence ==
    pr_pc = "done" =>
        pr_effective =
            IF pr_product.discount_percentage # None
            THEN pr_product.discount_percentage
            ELSE IF pr_product.original_price # None
                    /\ AmountLess(pr_product.price, pr_product.original_price[1])
            THEN Some(((pr_product.original_price[1].m - pr_product.price.m) * 10000)
                        \div pr_product.original_price[1].m)
            ELSE IF pr_product.discount_tag # None
            THEN TagNumber(pr_product.discount_tag[1])
            ELSE None

\* |a - b|
BigDistance(a, b) == IF BigLess(a, b) THEN BigSub(b, a) ELSE BigSub(a, b)

\* e / 10000 is no further than half of 1 / 10000 from (o - p) / o, for the
\* naturals o > p
IsNearestHundredth(e, o, p) ==
    ~BigLess(o, BigMulSmall(BigDistance(BigMul(BigOfInt(e), o),
                                        BigMulSmall(BigSub(o, p), 10000)), 2))

\* the percentage e, in hundredths, is (original - price) / original * 100
\* rounded to two decimals
IsRoundedPercent(e, original, price) ==
    /\ e >= 0
    /\ IsNearestHundredth(e, AmountUnits(original, Max(original.k, price.k)),
                             AmountUnits(price, Max(original.k, price.k)))

\* C17: the product parsed from a raw item whose old price is above its price
\* has has_discount true and the effective discount percentage
\* round((original - price) / original * 100, 2), whatever tag or extensions
\* the item carries.
C17_OldPriceGivesComputedDiscount ==
    (ps_pc = "parsed" /\ ~IsNone(ps_out) /\ ~IsNone(ps_item.extracted_old_price)
       /\ AmountLess(Val(ps_out).price, Val(ps_item.extracted_old_price))) =>
        /\ HasDiscount(Val(ps_out))
        /\ ~IsNone(CalculateDiscountPercentage(Val(ps_out)))
        /\ IsRoundedPercent(Val(CalculateDiscountPercentage(Val(ps_out))),
                            Val(ps_item.extracted_old_price), Val(ps_out).price)
        /\ Val(ps_out).discount_percentage = CalculateDiscountPercentage(Val(ps_out))

\* an item priced "$5" with old price 6.00 and the tag "51% OFF" was parsed to
\* a product of 16.67 percent
C17_Witness ==
    /\ ps_pc = "parsed"
    /\ ps_item.extracted_old_price = Some(Cents(600))
    /\ ps_item.tag = Some(s_51off)
    /\ ~IsNone(ps_out)
    /\ Val(ps_out).price = Cents(500)
    /\ CalculateDiscountPercentage(Val(ps_out)) = Some(1667)

-----------------------------------------------------------------------------
(* Properties of _product_to_deal and process_products *)

\* C18: every DealToCreate that _product_to_deal builds and process_products
\* hands to create_deal, and every row that the agent or the review app
\* inserts into deals, has status PENDING.
C18_DealsArePending ==
    /\ \A i \in 1..Len(p_log) :
          p_log[i].deal # None => p_log[i].deal[1].status = "pending"
    /\ \A i \in 1..Len(store.inserted) : store.inserted[i].status = "pending"
    /\ \A i \in 1..Len(store.app_rows) : store.app_rows[i].status = "pending"

\* a batch staged a deal in the store, and the review app sent a product
C18_Witness ==
    /\ p_pc = "returned"
    /\ Len(store.inserted) >= 1
    /\ \E i \in 1..Len(p_log) : p_log[i].created /\ p_log[i].deal # None
    /\ a_pc = "returned"
    /\ a_count = 1
    /\ Len(store.app_rows) = 1

\* price / (1 - percentage / 100) rounded to cents is value
IsEstimateOf(value, price, percentage) ==
    /\ price.k = 2
    /\ 2 * (value * (10000 - percentage) - price.m * 10000) <= 10000 - percentage
    /\ 2 * (price.m * 10000 - value * (10000 - percentage)) <= 10000 - percentage

\* C19: for a product without an original price _product_to_deal produces a
\* deal; its original_price is price / (1 - discount_percentage / 100) when
\* the discount percentage is known (0 to 100), otherwise it is price and the
\* deal's discount is 0 percent.
C19_OriginalPriceEstimated ==
    (pr_pc = "done" /\ pr_product.original_price = None) =>
        /\ ~pr_deal.raised
        /\ (pr_product.discount_percentage # None
               /\ pr_product.discount_percentage[1] <= 10000) =>
              IsEstimateOf(pr_deal.deal[1].original_price, pr_product.price,
                           pr_product.discount_percentage[1])
        /\ pr_product.discount_percentage = None =>
              /\ Cents(pr_deal.deal[1].original_price) = pr_product.price
              /\ pr_deal.deal[1].discount_percentage = 0

\* the entries of the log for which the claim expects a deal-creation attempt
IsSkip(e) == ~TruthyStr(e.product.product_link) \/ e.exists

\* C20: a product without a usable link, and a product the store reports a
\* deal for, cause no store lookup, no deal-creation attempt and no error;
\* every other product of the batch gets exactly one deal-creation attempt.
C20_SkipsSilentOthersAttempted ==
    \A i \in 1..Len(p_log) :
        /\ IsSkip(p_log[i]) =>
              /\ p_log[i].store_lookups = 0
              /\ p_log[i].create_attempts = 0
              /\ p_log[i].error = None
        /\ ~IsSkip(p_log[i]) => p_log[i].create_attempts = 1

\* the messages of the exceptions the loop body raised, in the order of the log
RaisedMessages(log) ==
    Pick([i \in 1..Len(log) |-> IF log[i].error = None THEN <<>> ELSE log[i].error[1]],
         SelectIdx([i \in 1..Len(log) |-> log[i].error # None], 1))

C22_StoreFailureRecorded ==
    p_pc \in {"loop", "returned"} =>
        /\ Len(p_failures) = Len(p_log)
        /\ Len(result.errors) >=
              Cardinality({i \in 1..Len(p_failures) : p_failures[i] # <<>>})
        /\ \A i \in 1..Len(p_failures) :
              (p_failures[i] # <<>> /\ p_log[i].deal # None) => p_log[i].error # None
        /\ p_pc = "returned" => Len(p_log) = Len(p_products)

-----------------------------------------------------------------------------
(* Properties of the agent over several calls *)

RECURSIVE SumFound(_)
\* the number of products the searches of outs returned
SumFound(outs) == IF outs = <<>> THEN 0 ELSE outs[1].found + SumFound(Tail(outs))

\* C23: each invocation of run accumulates into its own result: the counters
\* and the error list of the result a run returns reflect only the queries of
\* that run, also when run follows another run on the same agent or follows a
\* process_products call that recorded errors.
C23_ResultReflectsOnlyThisRun ==
    pc = "done" =>
        /\ result.errors = [n \in 1..Len(Raised) |->
                               <<81, 117, 101, 114, 121, 32, 39>>
                               \o attempted[Raised[n]].keyword
                               \o <<39, 58, 32>> \o outcomes[Raised[n]].msg]
        /\ result.search_queries_processed = Len(outcomes) - Len(Raised)
        /\ result.products_found = SumFound(outcomes)

\* C29: when the store client is not connected, gather_search_queries does not
\* raise and neither source contributes a query, so run attempts no search and
\* returns a result with queriesProcessed = 0, an empty error list and
\* success = TRUE.
C29_UnconnectedRunIsEmpty ==
    (pc = "done" /\ ~supabase_connected) =>
        /\ deal_alert_queries = <<>>
        /\ trending = <<>>
        /\ queries = <<>>
        /\ attempted = <<>>
        /\ result.search_queries_processed = 0
        /\ result.errors = <<>>
        /\ result.success = TRUE

\* C30: the result's dealsCreated counter equals the number of records the
\* agent has inserted: when process_products has inserted k deals and returns
\* k, dealsCreated has grown by k (from 0, on a new agent).
C30_DealsCreatedCountsInserted ==
    /\ p_pc \in {"loop", "returned"} => result.deals_created = Len(store.inserted)
    /\ p_pc = "returned" =>
          /\ p_deals_created = Len(store.inserted)
          /\ result.deals_created = p_deals_created

-----------------------------------------------------------------------------
(* Properties of the query object and of the request *)

\* the call starts: it runs from its first line to the await or to an exception
FilterStarts == f_pc = "input" /\ f_pc' # "input"

\* the call ends: it runs from the await to its return or to an exception
FilterEnds == f_pc = "awaiting" /\ f_pc' # "awaiting"

\* C26: search_with_discount_filter sets query.on_sale to true before it
\* searches, whatever the caller passed: a request that is sent carries the
\* on-sale flag, the call changes no other field of the query, at no step, and
\* on_sale is true when the call has raised before its request and when it
\* ends, returning or raising, without another coroutine having written it.
C26_OnSaleForcedNothingElseChanged ==
    /\ [][FilterStarts =>
            /\ f_query' = [f_input EXCEPT !.on_sale = TRUE]
            /\ f_out'.query = f_query'
            /\ f_out'.params # None => f_out'.params[1].on_sale = TRUE]_vars
    /\ [][FilterEnds => (f_query' = f_query /\ f_out'.query = f_query
                         /\ f_out'.params = f_out.params)]_vars

\* a call with on_sale = False sent its request with the flag and raised on the
\* answer, and the query has on_sale = True
C26_Witness ==
    /\ f_pc = "raised"
    /\ f_input.on_sale = FALSE
    /\ f_out.params # None
    /\ f_out.params[1].on_sale = TRUE
    /\ f_query.on_sale = TRUE
    /\ f_out.query.on_sale = TRUE

\* C27: for a SearchQuery built from the fields the query model declares,
\* search inside an open client builds the request parameters without error
\* and issues exactly one request, which carries the keyword with its case
\* unchanged, the result-count limit and the filters the query sets.
C27_DeclaredQueryIsRequested ==
    (f_pc \in {"returned", "raised"} /\ f_client = "open" /\ f_query.extra = {}) =>
        /\ f_out.params # None
        /\ f_out.params[1].q = f_query.keyword
        /\ f_out.params[1].num = DefaultNumResults
        /\ f_out.params[1].on_sale = TRUE
        /\ f_out.params[1].max_price = f_query.max_price
        /\ f_out.params[1].min_price = f_query.min_price

\* a search is called on the caller's client while the client is not open
SearchOutsideScope == f_pc = "input" /\ f_pc' # "input" /\ f_client # "open"

\* C28: the search client exposes search only while it is open: a search called
\* before the client's scope was entered or after it was exited raises and
\* issues no request; and the connection opened on entry is closed on every
\* way out of the scope: when run's loop ends, when an error escapes run's
\* loop, and when a caller's async with is left.
C28_SearchOnlyWhileOpenClosedOnExit ==
    /\ [](pc = "loop" => serp_client = "open")
    /\ [](pc \in {"done", "cancelled"} => serp_client = "closed")
    /\ [][SearchOutsideScope =>
            (f_pc' = "raised" /\ f_out'.raised /\ f_out'.params = None)]_vars
    /\ [][(f_client = "open" /\ f_client' # "open") => f_client' = "closed"]_vars

\* an error escaped run's loop and left its client closed; a search on the
\* caller's client after its scope was exited raised at the closed connection
\* without a request, for a query that an open client would have sent
C28_Witness ==
    /\ pc = "cancelled"
    /\ serp_client = "closed"
    /\ f_client = "closed"
    /\ f_pc = "raised"
    /\ f_out.msg = ClientClosedMessage
    /\ f_out.params = None

-----------------------------------------------------------------------------
(* Properties of the counters of run *)

\* self._result after the iteration of run whose search did out, on a new result
Counted(keyword, out) == AfterQuery(NewAgentResult, keyword, out)

\* the counters of res: products_found, products_with_discount and
\* search_queries_processed
Counters(res) ==
    <<res.products_found, res.products_with_discount, res.search_queries_processed>>

\* C25: after a completed query iteration of run productsWithDiscount equals
\* productsFound: for whatever search_with_discount_filter returns, the
\* iteration adds the number of returned products to both counters, every
\* returned product having has_discount; an iteration whose search raised adds
\* to neither; so the two counters of a run's result are equal throughout.
C25_DiscountCountEqualsFound ==
    /\ f_pc = "returned" =>
          /\ \A i \in 1..Len(f_out.discounted) : HasDiscount(f_out.discounted[i])
          /\ Counters(Counted(f_query.keyword, f_out))
                = <<Len(f_out.discounted), Len(f_out.discounted), 1>>
    /\ f_pc = "raised" => Counters(Counted(f_query.keyword, f_out)) = <<0, 0, 0>>
    /\ pc \in {"loop", "done", "cancelled"} =>
          result.products_with_discount = result.products_found

\* a search returned two products, one of them discounted by its tag alone
C25_Witness ==
    /\ f_pc = "returned"
    /\ Len(f_out.discounted) = 2
    /\ \E i \in 1..2 : f_out.discounted[i].original_price = None
    /\ Counted(f_query.keyword, f_out).products_with_discount = 2

-----------------------------------------------------------------------------
(* Properties of the construction of the agent *)

\* the variables that must be set to a non-empty text
RequiredVariables == {"SERP_API_KEY", "SUPABASE_URL", "SUPABASE_ANON_KEY"}

\* C24: constructing the agent without an explicit config fails with an error,
\* before any query is gathered or searched, whenever the search-API key, the
\* store URL or the store access key is missing or empty in the environment;
\* no required setting is defaulted: a constructed agent's config holds the
\* three values of the environment.
C24_MissingConfigFailsFast ==
    (cfg_pc \in {"constructed", "raised"} /\ cfg_config = None) =>
        /\ (\E v \in RequiredVariables : cfg_env[v] \in {None, Some(<<>>)})
              => (cfg_pc = "raised" /\ cfg_out.raised /\ cfg_out.config = None)
        /\ cfg_pc = "raised" => (runs = 0 /\ attempted = <<>> /\ pc = "idle")
        /\ cfg_pc = "constructed" =>
              /\ Some(cfg_out.config[1].serp_api.api_key) = cfg_env.SERP_API_KEY
              /\ Some(cfg_out.config[1].supabase.url) = cfg_env.SUPABASE_URL
              /\ Some(cfg_out.config[1].supabase.anon_key) = cfg_env.SUPABASE_ANON_KEY

\* the construction failed in an environment where only the store access key
\* is empty, although the service role key is set
C24_Witness ==
    /\ cfg_pc = "raised"
    /\ cfg_config = None
    /\ cfg_env.SERP_API_KEY = Some(s_key)
    /\ cfg_env.SUPABASE_URL = Some(s_url)
    /\ cfg_env.SUPABASE_ANON_KEY = Some(<<>>)
    /\ cfg_env.SUPABASE_SERVICE_ROLE_KEY = Some(s_key)
    /\ cfg_out.msg = SupabaseRequiredMessage

====
